---- MODULE Spec2Model ----
(***************************************************************************)
(* Climatic chamber controller: the cooperative tick (sampling scheduler,  *)
(* measurement cycle, action sequencer, heater loop) of                    *)
(* src/src/flash_ringbuffer.h, as a state machine; and the persistent slot *)
(* log (ring buffer of CRC-protected records on a block device, with a RAM *)
(* fallback) of src/src/main.cpp, as a second state machine.               *)
(*                                                                         *)
(* Units: times are milliseconds as returned by millis(); relative         *)
(* humidity and temperature are carried in tenths (90.0 % = 900,           *)
(* 25.0 C = 250), CO2 in ppm.                                              *)
(***************************************************************************)
EXTENDS Integers, Sequences, FiniteSets, TLC

VARIABLES
  now,               \* value of millis()
  pc,                \* position inside controller_tick / loop
  g_simSensor,       \* SimSensor: [co2, rh, temp, lastUpdate]
  g_co2_setpoint,
  g_rh_setpoint,
  g_temp_setpoint,
  g_actionCtx,       \* ActionContext
  g_swirlerState,
  g_freshAirState,
  g_foggerState,
  g_heaterState,
  g_measureCtx,      \* MeasureContext
  g_nextSampleMs,    \* sampleTick schedule
  lastCheckMs,       \* heaterTick's function-local static
  simMoves,          \* number of times the simulated reading has changed
  hist,              \* history: completion times of the RH actions
  spc,               \* position inside setup / loop of the storage program
  g_storageInitialized,
  g_flashAvailable,
  g_ringBuffer,      \* the RAM ring buffer, slot by slot
  flash,             \* the block device's region, slot by slot
  g_currentSlot,     \* write cursor
  g_values,          \* the ten live values
  g_valuesDirty,
  g_lastValueChangeMs,
  faults,            \* number of device calls that have failed
  slog,              \* history: what the last save and the device calls did
  g_rhBuffer,        \* SensorRingBuffer: [buffer, head, count]
  wlog,              \* history: the values pushed and the due ticks of the sampler
  mcall              \* the last call of a helper made on its own: arguments and outcome

storeVars == << spc, g_storageInitialized, g_flashAvailable, g_ringBuffer, flash,
                g_currentSlot, g_values, g_valuesDirty, g_lastValueChangeMs,
                faults, slog >>

\* state of the units that are also exercised on their own
unitVars == << g_rhBuffer, wlog, mcall >>

vars == << now, pc, g_simSensor, g_co2_setpoint, g_rh_setpoint, g_temp_setpoint,
           g_actionCtx, g_swirlerState, g_freshAirState, g_foggerState,
           g_heaterState, g_measureCtx, g_nextSampleMs, lastCheckMs,
           simMoves, hist, storeVars, unitVars >>

---------------------------------------------------------------------------
(* Program constants                                                       *)

SPEEDUP_FACTOR == 10
SPEEDUP == SPEEDUP_FACTOR

RT_SAMPLE_PERIOD_MS == 1000
RT_MEDIAN_SAMPLE_PERIOD_MS == 1000
RT_MEASURE_SWIRL_DURATION_MS == 5000
RT_WAIT_BETWEEN_CYCLES_MS == 60000

RT_CO2_SWIRL_MS == 10000
RT_CO2_SETTLE_MS == 20000
RT_RH_DOWN_FRESHAIR_MS == 10000
RT_RH_DOWN_SWIRL_MS == 10000
RT_RH_DOWN_SETTLE_MS == 20000
RT_RH_UP_FOGGER_MS == 5000
RT_RH_UP_MIX_MS == 10000
RT_RH_UP_SETTLE_MS == 120000
RT_BASELINE_FRESHAIR_MS == 10000
RT_BASELINE_SETTLE_MS == 10000

RT_RH_LOCKOUT_MS == 180000
RT_BASELINE_INTERVAL_MS == 600000

SAMPLE_INTERVAL_MS == 3000
HEATER_CHECK_INTERVAL_MS == 1000

\* 2.0f, in tenths of a percent
RH_HYSTERESIS == 20
\* the literal 1.0f of heaterTick, in tenths of a degree
HEATER_ON_THRESHOLD == 10
\* Config::CO2::CONTROL_THRESHOLD (declared, not read by controllerEvaluate)
CONTROL_THRESHOLD == 100

MEDIAN_SAMPLE_COUNT == 5

\* main.cpp: debounce of the persistence tick (not scaled), payload size
PERSIST_INTERVAL_MS == 5000
NUM_VALUES == 10
\* main.cpp: the RAM recovery scan covers this many slots at the end of the buffer
RAM_SCAN_SLOTS == 10

---------------------------------------------------------------------------
(* Bounds of the model                                                     *)

\* loop period: millis() advances by this much between two controller_tick calls
TickMs == 500
\* millis() at controller_init (setup() has run Serial and storage init before)
BootMs == 500
\* time horizon
MaxTime == 72000
\* how often the simulated reading may change over a run
MaxSensorMoves == 1
\* number of slots of the ring buffer (RING_BUFFER_NUM_SLOTS, 100 on the device)
NumSlots == 3
\* storage program: loop period, millis() at the first loop(), time horizon
StoreTickMs == 2500
StoreBootMs == 1000
StoreMaxTime == 30000
\* how many device calls (read, program, erase) may fail over a run
MaxFaults == 1
\* capacity of a sample window (200 in the program), pushes and clock of its runs
RingCap == 4
MaxPushes == 6
SamplerMaxTime == 3000
\* nominal durations handed to the time scaler on its own: 0 .. MaxNominalMs
MaxNominalMs == 120
\* the period of a loop that runs faster than the stage granularity
FastTickMs == 100
\* millis() at which the runs of the fast loop end
FastMaxTime == 16000

---------------------------------------------------------------------------
(* Time scaler                                                             *)

\* mutant: the plain quotient, without the floor of one millisecond
scaled_quotient(ms) == ms \div SPEEDUP

scaled(ms) ==
  IF ms = 0 THEN 0
  ELSE LET result == ms \div SPEEDUP
       IN  IF result = 0 THEN 1 ELSE result

---------------------------------------------------------------------------
(* Median helpers                                                          *)

\* one pass of the inner loop of sortArray: j = 1 .. limit (1-based)
RECURSIVE bubblePass(_, _, _)
bubblePass(arr, j, limit) ==
  IF j > limit THEN arr
  ELSE IF arr[j] > arr[j + 1]
       THEN bubblePass([arr EXCEPT ![j] = arr[j + 1], ![j + 1] = arr[j]], j + 1, limit)
       ELSE bubblePass(arr, j + 1, limit)

\* outer loop of sortArray: i = 0 .. n-2, inner loop over j < n - i - 1
RECURSIVE sortFrom(_, _, _)
sortFrom(arr, i, n) ==
  IF i >= n - 1 THEN arr
  ELSE sortFrom(bubblePass(arr, 1, n - i - 1), i + 1, n)

sortArray(arr, n) == sortFrom(arr, 0, n)

\* odd n: the middle element; even n: (a + b) / 2 (values in tenths, truncated)
medianFloat(values, n) ==
  IF n = 0 THEN 0
  ELSE LET sorted == sortArray(values, n)
       IN  IF n % 2 = 0
           THEN (sorted[n \div 2] + sorted[n \div 2 + 1]) \div 2
           ELSE sorted[n \div 2 + 1]

medianInt(values, n) ==
  IF n = 0 THEN 0
  ELSE LET sorted == sortArray(values, n)
       IN  IF n % 2 = 0
           THEN (sorted[n \div 2] + sorted[n \div 2 + 1]) \div 2
           ELSE sorted[n \div 2 + 1]

---------------------------------------------------------------------------
(* Sensors                                                                 *)

\* the readings the simulated sensor moves between
Readings ==
  { [co2 |-> 800, rh |-> 920, temp |-> 250],
    [co2 |-> 950, rh |-> 920, temp |-> 245],
    [co2 |-> 850, rh |-> 920, temp |-> 235],
    [co2 |-> 700, rh |-> 990, temp |-> 235],
    [co2 |-> 700, rh |-> 850, temp |-> 250] }

reading(sim) == [co2 |-> sim.co2, rh |-> sim.rh, temp |-> sim.temp]

\* SimSensor::read: the set of sensor states a read at time t may leave behind.
\* The walk moves only when a sample period has passed since the last update.
SimRead(sim, t, mayMove) ==
  IF t - sim.lastUpdate >= scaled(RT_SAMPLE_PERIOD_MS)
  THEN { [co2 |-> r.co2, rh |-> r.rh, temp |-> r.temp, lastUpdate |-> t] :
           r \in IF mayMove THEN Readings ELSE {reading(sim)} }
  ELSE {sim}

---------------------------------------------------------------------------
(* Outputs and action context                                              *)

Outputs == [swirler |-> g_swirlerState, freshAir |-> g_freshAirState,
            fogger |-> g_foggerState, heater |-> g_heaterState]

setSwirler(c, on) == [c EXCEPT !.out.swirler = on]
\* mutant: the fresh-air output is switched on by any call
setFreshAir_onlyOn(c, on) == [c EXCEPT !.out.freshAir = TRUE]
setFreshAir(c, on) == [c EXCEPT !.out.freshAir = on]
setFogger(c, on) == [c EXCEPT !.out.fogger = on]
setHeater(c, on) == [c EXCEPT !.out.heater = on]

\* mutant: the fogger is left as it is
allOutputsOff_keepsFogger(c) == setHeater(setFreshAir(setSwirler(c, FALSE), FALSE), FALSE)

allOutputsOff(c) == setHeater(setFogger(setFreshAir(setSwirler(c, FALSE), FALSE), FALSE), FALSE)

\* mutant: the kind is recorded but the first stage is not entered
startAction_noStage(c, action, t) ==
  IF c.ctx.currentAction # "ACTION_NONE" THEN c
  ELSE [c EXCEPT !.ctx.currentAction = action, !.ctx.stageStartMs = t]

\* mutant: the request is served although an action is running
startAction_unguarded(c, action, t) ==
  LET c1 == [c EXCEPT !.ctx.currentAction = action, !.ctx.stageStartMs = t]
  IN  CASE action = "ACTION_CO2" ->
             setSwirler([c1 EXCEPT !.ctx.currentStage = "STAGE_CO2_SWIRL"], TRUE)
        [] action = "ACTION_RH_DOWN" ->
             [setFreshAir([c1 EXCEPT !.ctx.currentStage = "STAGE_RH_DOWN_FRESHAIR"], TRUE)
                EXCEPT !.ctx.lastVentilationMs = t]
        [] action = "ACTION_RH_UP" ->
             setFogger([c1 EXCEPT !.ctx.currentStage = "STAGE_RH_UP_FOGGER"], TRUE)
        [] action = "ACTION_BASELINE" ->
             [setFreshAir([c1 EXCEPT !.ctx.currentStage = "STAGE_BASELINE_FRESHAIR"], TRUE)
                EXCEPT !.ctx.lastVentilationMs = t]
        [] OTHER -> c1

\* c = [ctx |-> ActionContext, out |-> Outputs]; t = millis()
startAction(c, action, t) ==
  IF c.ctx.currentAction # "ACTION_NONE" THEN c
  ELSE LET c1 == [c EXCEPT !.ctx.currentAction = action, !.ctx.stageStartMs = t]
       IN  CASE action = "ACTION_CO2" ->
                  setSwirler([c1 EXCEPT !.ctx.currentStage = "STAGE_CO2_SWIRL"], TRUE)
             [] action = "ACTION_RH_DOWN" ->
                  [setFreshAir([c1 EXCEPT !.ctx.currentStage = "STAGE_RH_DOWN_FRESHAIR"], TRUE)
                     EXCEPT !.ctx.lastVentilationMs = t]
             [] action = "ACTION_RH_UP" ->
                  setFogger([c1 EXCEPT !.ctx.currentStage = "STAGE_RH_UP_FOGGER"], TRUE)
             [] action = "ACTION_BASELINE" ->
                  [setFreshAir([c1 EXCEPT !.ctx.currentStage = "STAGE_BASELINE_FRESHAIR"], TRUE)
                     EXCEPT !.ctx.lastVentilationMs = t]
             [] OTHER -> c1

\* mutant: the stage's wait is not looked at
stageElapsed_always(c, t, duration) == TRUE

\* mutant: compares the clock itself, not the time spent in the stage
stageElapsed_absolute(c, t, duration) == t >= scaled(duration)

\* the stage's "elapsed >= scaled(duration)" test
stageElapsed(c, t, duration) == t - c.ctx.stageStartMs >= scaled(duration)

\* mutant: every stage transition counts as a ventilation
nextStage_stampsVentilation(c, stage, t) ==
  [c EXCEPT !.ctx.currentStage = stage, !.ctx.stageStartMs = t,
            !.ctx.lastVentilationMs = t]

nextStage(c, stage, t) == [c EXCEPT !.ctx.currentStage = stage, !.ctx.stageStartMs = t]

\* mutant: the action kind is reset but the stage is left at the last one
complete_keepsStage(c) == [c EXCEPT !.ctx.currentAction = "ACTION_NONE"]

\* mutant: the stage is reset but the action kind is left set
complete_keepsKind(c) == [c EXCEPT !.ctx.currentStage = "STAGE_IDLE"]

complete(c) == [c EXCEPT !.ctx.currentAction = "ACTION_NONE", !.ctx.currentStage = "STAGE_IDLE"]

actionTick(c, t) ==
  IF c.ctx.currentAction = "ACTION_NONE" THEN c
  ELSE
    CASE c.ctx.currentStage = "STAGE_CO2_SWIRL" ->
           IF stageElapsed(c, t, RT_CO2_SWIRL_MS)
           THEN nextStage(setSwirler(c, FALSE), "STAGE_CO2_SETTLE", t)
           ELSE c
      [] c.ctx.currentStage = "STAGE_CO2_SETTLE" ->
           IF stageElapsed(c, t, RT_CO2_SETTLE_MS)
           THEN complete(allOutputsOff(c))
           ELSE c
      [] c.ctx.currentStage = "STAGE_RH_DOWN_FRESHAIR" ->
           IF stageElapsed(c, t, RT_RH_DOWN_FRESHAIR_MS)
           THEN nextStage(setSwirler(setFreshAir(c, FALSE), TRUE), "STAGE_RH_DOWN_SWIRL", t)
           ELSE c
      [] c.ctx.currentStage = "STAGE_RH_DOWN_SWIRL" ->
           IF stageElapsed(c, t, RT_RH_DOWN_SWIRL_MS)
           THEN nextStage(setSwirler(c, FALSE), "STAGE_RH_DOWN_SETTLE", t)
           ELSE c
      [] c.ctx.currentStage = "STAGE_RH_DOWN_SETTLE" ->
           IF stageElapsed(c, t, RT_RH_DOWN_SETTLE_MS)
           THEN complete([allOutputsOff(c) EXCEPT
                            !.ctx.rhUpLockoutUntilMs = t + scaled(RT_RH_LOCKOUT_MS)])
           ELSE c
      [] c.ctx.currentStage = "STAGE_RH_UP_FOGGER" ->
           IF stageElapsed(c, t, RT_RH_UP_FOGGER_MS)
           THEN [nextStage(setFreshAir(setSwirler(c, TRUE), TRUE), "STAGE_RH_UP_MIX", t)
                   EXCEPT !.ctx.lastVentilationMs = t]
           ELSE c
      [] c.ctx.currentStage = "STAGE_RH_UP_MIX" ->
           IF stageElapsed(c, t, RT_RH_UP_MIX_MS)
           THEN nextStage(allOutputsOff(c), "STAGE_RH_UP_SETTLE", t)
           ELSE c
      [] c.ctx.currentStage = "STAGE_RH_UP_SETTLE" ->
           IF stageElapsed(c, t, RT_RH_UP_SETTLE_MS)
           THEN complete([allOutputsOff(c) EXCEPT
                            !.ctx.rhDownLockoutUntilMs = t + scaled(RT_RH_LOCKOUT_MS)])
           ELSE c
      [] c.ctx.currentStage = "STAGE_BASELINE_FRESHAIR" ->
           IF stageElapsed(c, t, RT_BASELINE_FRESHAIR_MS)
           THEN nextStage(setFreshAir(c, FALSE), "STAGE_BASELINE_SETTLE", t)
           ELSE c
      [] c.ctx.currentStage = "STAGE_BASELINE_SETTLE" ->
           IF stageElapsed(c, t, RT_BASELINE_SETTLE_MS)
           THEN complete(allOutputsOff(c))
           ELSE c
      [] OTHER -> c

---------------------------------------------------------------------------
(* Decision engine                                                         *)

\* the four tests of controllerEvaluate, in the order the code makes them
co2High(m) == m.co2 > g_co2_setpoint

\* mutant: RH-lowering gated by the deadline its own completion sets
rhHigh_ownLockout(c, m, t) ==
  m.rh > g_rh_setpoint + RH_HYSTERESIS /\ t >= c.ctx.rhUpLockoutUntilMs

\* mutant: RH-raising not gated by any lockout
rhLow_noLockout(c, m, t) == m.rh < g_rh_setpoint - RH_HYSTERESIS

rhHigh(c, m, t) == m.rh > g_rh_setpoint + RH_HYSTERESIS /\ t >= c.ctx.rhDownLockoutUntilMs
rhLow(c, m, t) == m.rh < g_rh_setpoint - RH_HYSTERESIS /\ t >= c.ctx.rhUpLockoutUntilMs
baselineDue(c, t) ==
  /\ c.ctx.lastVentilationMs > 0
  /\ t - c.ctx.lastVentilationMs >= scaled(RT_BASELINE_INTERVAL_MS)

\* mutant: a preempting evaluation, which drops the running action and decides anew
controllerEvaluate_preempt(c, m, t) ==
  LET idle == [c EXCEPT !.ctx.currentAction = "ACTION_NONE"]
  IN  IF co2High(m) THEN startAction(idle, "ACTION_CO2", t)
      ELSE IF rhHigh(c, m, t) THEN startAction(idle, "ACTION_RH_DOWN", t)
      ELSE IF rhLow(c, m, t) THEN startAction(idle, "ACTION_RH_UP", t)
      ELSE IF baselineDue(c, t) THEN startAction(idle, "ACTION_BASELINE", t)
      ELSE c

controllerEvaluate(c, m, t) ==
  IF c.ctx.currentAction # "ACTION_NONE" THEN c
  ELSE IF co2High(m) THEN startAction(c, "ACTION_CO2", t)
  ELSE IF rhHigh(c, m, t) THEN startAction(c, "ACTION_RH_DOWN", t)
  ELSE IF rhLow(c, m, t) THEN startAction(c, "ACTION_RH_UP", t)
  ELSE IF baselineDue(c, t) THEN startAction(c, "ACTION_BASELINE", t)
  ELSE c

---------------------------------------------------------------------------
(* Persistent slot log: records, CRC and the block device                  *)
(*                                                                         *)
(* A slot is a DataEntry: sequence (u32, here its four little-endian       *)
(* bytes), values (ten u16), crc (one byte) and 39 padding bytes, which    *)
(* are all equal in every slot the program meets and are carried as one    *)
(* byte value.                                                             *)

Slots == 0 .. NumSlots - 1

RECURSIVE xorBits(_, _, _)
xorBits(a, b, n) ==
  IF n = 0 THEN 0
  ELSE (((a % 2) + (b % 2)) % 2) + 2 * xorBits(a \div 2, b \div 2, n - 1)

RECURSIVE andBits(_, _, _)
andBits(a, b, n) ==
  IF n = 0 THEN 0
  ELSE ((a % 2) * (b % 2)) + 2 * andBits(a \div 2, b \div 2, n - 1)

\* the inner loop of crc8: eight shifts with polynomial 0x07
RECURSIVE crcShift(_, _)
crcShift(crc, j) ==
  IF j = 0 THEN crc
  ELSE crcShift(IF crc >= 128 THEN xorBits((crc * 2) % 256, 7, 8) ELSE (crc * 2) % 256,
                j - 1)

\* tabulated once: crc ^= p[i], and the eight shifts of one byte
Xor8 == [a \in 0 .. 255 |-> [b \in 0 .. 255 |-> xorBits(a, b, 8)]]
CrcStep == [x \in 0 .. 255 |-> crcShift(x, 8)]

crc8(p) ==
  LET crcAt[i \in 0 .. Len(p)] ==
        IF i = 0 THEN 255 ELSE CrcStep[Xor8[crcAt[i - 1]][p[i]]]
  IN  crcAt[Len(p)]

\* the first 24 bytes of a DataEntry: sequence, then the values, little-endian
valueBytes(vs) ==
  [k \in 1 .. 2 * Len(vs) |->
     IF k % 2 = 1 THEN vs[(k + 1) \div 2] % 256 ELSE vs[(k + 1) \div 2] \div 256]

entryBytes(e) == e.sequence \o valueBytes(e.values)

\* 0xFFFFFFFF, the sequence of an unwritten slot
SEQ_UNWRITTEN == << 255, 255, 255, 255 >>

\* a small u32 as its bytes
U32(n) == << n % 256, (n \div 256) % 256, (n \div 65536) % 256, 0 >>

\* u32 + 1, wrapping
RECURSIVE incFrom(_, _)
incFrom(b, i) ==
  IF i > Len(b) THEN b
  ELSE IF b[i] = 255 THEN incFrom([b EXCEPT ![i] = 0], i + 1)
  ELSE [b EXCEPT ![i] = b[i] + 1]

\* u32 a > b
RECURSIVE gtFrom(_, _, _)
gtFrom(a, b, i) ==
  IF i = 0 THEN FALSE
  ELSE IF a[i] # b[i] THEN a[i] > b[i]
  ELSE gtFrom(a, b, i - 1)

seqGreater(a, b) == gtFrom(a, b, 4)

ZeroValues == [i \in 1 .. NUM_VALUES |-> 0]

\* a slot in the erased state: every byte 0xFF
ErasedSlot ==
  [sequence |-> SEQ_UNWRITTEN, values |-> [i \in 1 .. NUM_VALUES |-> 65535],
   crc |-> 255, padding |-> 255]

isErased(slot) == slot = ErasedSlot

\* the entry a save builds: memset 0, sequence, values, crc over the first 24 bytes
makeEntry(sequence, values) ==
  [sequence |-> sequence, values |-> values,
   crc |-> crc8(entryBytes([sequence |-> sequence, values |-> values])),
   padding |-> 0]

\* programming flash can only clear bits: the slot holds old AND new
programmed(old, new) ==
  [sequence |-> [i \in 1 .. 4 |-> andBits(old.sequence[i], new.sequence[i], 8)],
   values |-> [i \in 1 .. NUM_VALUES |-> andBits(old.values[i], new.values[i], 16)],
   crc |-> andBits(old.crc, new.crc, 8),
   padding |-> andBits(old.padding, new.padding, 8)]

\* what the region may hold at power-up: unwritten slots, records of earlier
\* runs, and a record whose CRC does not match
Record(n, v) == makeEntry(U32(n), [ZeroValues EXCEPT ![1] = v])
CorruptRecord(n, v) == [Record(n, v) EXCEPT !.crc = (@ + 1) % 256]
SlotSamples == { ErasedSlot, Record(0, 9), Record(1, 7), Record(2, 8), CorruptRecord(3, 5) }
FlashImages == [Slots -> SlotSamples]

\* the region as this program's own saves leave it: the first k slots written
LogImage(k) == [s \in Slots |-> IF s < k THEN Record(s + 1, s + 7) ELSE ErasedSlot]
\* a region whose first slot holds a record that fails its CRC
CorruptImage == [s \in Slots |-> IF s = 0 THEN CorruptRecord(3, 5) ELSE ErasedSlot]
RunImages == { LogImage(0), LogImage(NumSlots - 1), LogImage(NumSlots), CorruptImage }

\* history of the storage program: n saves so far; of the last save its entry's
\* sequence, destination slot, time, whether fb_erase_region was called, whether the
\* destination was erased and whether the write succeeded; written: the sequence of
\* the last entry written successfully; found: what the recovery scan found;
\* blank: the region was erased at power-up; fbCalled: a device call was made
NoLog(blank) ==
  [n |-> 0, sequence |-> << >>, slot |-> 0, ms |-> 0, erase |-> FALSE,
   destErased |-> TRUE, writeOk |-> TRUE, written |-> << >>, found |-> FALSE,
   blank |-> blank, fbCalled |-> FALSE]

\* the storage program before setup()
StoreParked ==
  /\ spc = "off"
  /\ g_storageInitialized = FALSE
  /\ g_flashAvailable = FALSE
  /\ g_ringBuffer = [s \in Slots |-> ErasedSlot]
  /\ flash = [s \in Slots |-> ErasedSlot]
  /\ g_currentSlot = 0
  /\ g_values = ZeroValues
  /\ g_valuesDirty = FALSE
  /\ g_lastValueChangeMs = 0
  /\ faults = 0
  /\ slog = NoLog(TRUE)

---------------------------------------------------------------------------
(* Sample window: SensorRingBuffer<T, N>                                   *)

\* the constructor: head(0), count(0), buffer zeroed (indices 0 .. N-1)
RingNew == [buffer |-> [i \in 0 .. RingCap - 1 |-> 0], head |-> 0, count |-> 0]

\* SensorRingBuffer::push
push(rb, value) ==
  [buffer |-> [rb.buffer EXCEPT ![rb.head] = value],
   head |-> (rb.head + 1) % RingCap,
   count |-> IF rb.count < RingCap THEN rb.count + 1 ELSE rb.count]

\* mutant: the full buffer is read from slot 0, not from the oldest slot
getAll_fromZero(rb) ==
  IF rb.count < RingCap
  THEN LET fillCount == RingCap - rb.count
       IN  [i \in 1 .. RingCap |->
              IF i - 1 < fillCount THEN 0 ELSE rb.buffer[(0 + (i - 1 - fillCount)) % RingCap]]
  ELSE [i \in 1 .. RingCap |-> rb.buffer[(i - 1) % RingCap]]

\* SensorRingBuffer::getAll: out[0 .. N-1] as a sequence
getAll(rb) ==
  IF rb.count < RingCap
  THEN LET fillCount == RingCap - rb.count
       IN  [i \in 1 .. RingCap |->
              IF i - 1 < fillCount THEN 0 ELSE rb.buffer[(0 + (i - 1 - fillCount)) % RingCap]]
  ELSE [i \in 1 .. RingCap |-> rb.buffer[(rb.head + (i - 1)) % RingCap]]

NoPushes == [pushed |-> << >>, firstDue |-> 0, due |-> 0, late |-> FALSE]

\* no helper has been called
NoCall == [fn |-> "none", values |-> << >>, n |-> 0, outcome |-> "none", result |-> 0,
           after |-> << >>]

\* the sample windows before the first sampleTick
UnitParked ==
  /\ g_rhBuffer = RingNew
  /\ wlog = NoPushes
  /\ mcall = NoCall

---------------------------------------------------------------------------
(* State after construction and controller_init                            *)

\* SimSensor's constructor
SimSensorInit == [co2 |-> 800, rh |-> 920, temp |-> 250, lastUpdate |-> 0]

\* the setpoints controller_init reads back from storage
Co2Setpoints == {800}
RhSetpoints == {880, 900, 950}
TempSetpoints == {250}

ZeroSamples == [i \in 1..MEDIAN_SAMPLE_COUNT |-> 0]

Init ==
  /\ now = BootMs
  /\ pc = "sample"
  /\ g_simSensor = SimSensorInit
  /\ g_co2_setpoint \in Co2Setpoints
  /\ g_rh_setpoint \in RhSetpoints
  /\ g_temp_setpoint \in TempSetpoints
  /\ g_actionCtx = [currentAction |-> "ACTION_NONE", currentStage |-> "STAGE_IDLE",
                    stageStartMs |-> 0, rhUpLockoutUntilMs |-> 0,
                    rhDownLockoutUntilMs |-> 0, lastVentilationMs |-> BootMs]
  /\ g_swirlerState = FALSE
  /\ g_freshAirState = FALSE
  /\ g_foggerState = FALSE
  /\ g_heaterState = FALSE
  /\ g_measureCtx = [stage |-> "MEASURE_IDLE", stageStartMs |-> 0, nextSampleMs |-> 0,
                     sampleIndex |-> 0, rhSamples |-> ZeroSamples,
                     tempSamples |-> ZeroSamples, co2Samples |-> ZeroSamples]
  /\ g_nextSampleMs = 0
  /\ lastCheckMs = 0
  /\ simMoves = 0
  /\ hist = [rhDownDoneMs |-> -1, rhUpDoneMs |-> -1]
  /\ StoreParked
  /\ UnitParked

---------------------------------------------------------------------------
(* Steps of controller_tick                                                *)

\* readSensors3 through g_simSensor.read(): the sensor state sim2 it leaves
ReadSensors(sim2) ==
  /\ sim2 \in SimRead(g_simSensor, now, simMoves < MaxSensorMoves)
  /\ g_simSensor' = sim2
  /\ simMoves' = IF reading(sim2) # reading(g_simSensor) THEN simMoves + 1 ELSE simMoves

NoRead == UNCHANGED << g_simSensor, simMoves >>

Ctl == [ctx |-> g_actionCtx, out |-> Outputs]

SetCtl(c) ==
  /\ g_actionCtx' = c.ctx
  /\ g_swirlerState' = c.out.swirler
  /\ g_freshAirState' = c.out.freshAir
  /\ g_foggerState' = c.out.fogger
  /\ g_heaterState' = c.out.heater

\* history of completions, read off the step of the action sequencer
HistAfter(c) ==
  [rhDownDoneMs |-> IF g_actionCtx.currentStage = "STAGE_RH_DOWN_SETTLE"
                       /\ c.ctx.currentAction = "ACTION_NONE"
                    THEN now ELSE hist.rhDownDoneMs,
   rhUpDoneMs |-> IF g_actionCtx.currentStage = "STAGE_RH_UP_SETTLE"
                     /\ c.ctx.currentAction = "ACTION_NONE"
                  THEN now ELSE hist.rhUpDoneMs]

\* mutant: every due tick schedules the next one from the current time
nextSampleDue_fromNow(next, t) == t + scaled(SAMPLE_INTERVAL_MS)

\* the schedule update of sampleTick
nextSampleDue(next, t) ==
  IF next = 0 THEN t + scaled(SAMPLE_INTERVAL_MS) ELSE next + scaled(SAMPLE_INTERVAL_MS)

SampleTick ==
  /\ pc = "sample"
  /\ pc' = "measure"
  /\ IF now >= g_nextSampleMs
     THEN /\ \E sim2 \in SimRead(g_simSensor, now, simMoves < MaxSensorMoves) : ReadSensors(sim2)
          /\ g_nextSampleMs' = nextSampleDue(g_nextSampleMs, now)
     ELSE /\ NoRead
          /\ UNCHANGED g_nextSampleMs
  /\ UNCHANGED << now, g_co2_setpoint, g_rh_setpoint, g_temp_setpoint, g_actionCtx,
                  g_swirlerState, g_freshAirState, g_foggerState, g_heaterState,
                  g_measureCtx, lastCheckMs, hist, storeVars, unitVars >>

\* mutant: the waits of SWIRL and WAIT are measured from boot, not from the stage's start
measureTimed_fromBoot(m, c, t) ==
  CASE m.stage = "MEASURE_IDLE" ->
         [m |-> [m EXCEPT !.stage = "MEASURE_SWIRL", !.stageStartMs = t],
          c |-> setSwirler(c, TRUE)]
    [] m.stage = "MEASURE_SWIRL" ->
         IF t >= scaled(RT_MEASURE_SWIRL_DURATION_MS)
         THEN [m |-> [m EXCEPT !.stage = "MEASURE_MEDIAN", !.stageStartMs = t,
                               !.nextSampleMs = t, !.sampleIndex = 0],
               c |-> setSwirler(c, FALSE)]
         ELSE [m |-> m, c |-> c]
    [] m.stage = "MEASURE_WAIT" ->
         IF t >= scaled(RT_WAIT_BETWEEN_CYCLES_MS)
         THEN [m |-> [m EXCEPT !.stage = "MEASURE_SWIRL", !.stageStartMs = t],
               c |-> setSwirler(c, TRUE)]
         ELSE [m |-> m, c |-> c]
    [] OTHER -> [m |-> m, c |-> c]

\* mutant: a new cycle is not begun while an action is running
measureTimed_waitsForAction(m, c, t) ==
  CASE m.stage = "MEASURE_IDLE" ->
         [m |-> [m EXCEPT !.stage = "MEASURE_SWIRL", !.stageStartMs = t],
          c |-> setSwirler(c, TRUE)]
    [] m.stage = "MEASURE_SWIRL" ->
         IF t - m.stageStartMs >= scaled(RT_MEASURE_SWIRL_DURATION_MS)
         THEN [m |-> [m EXCEPT !.stage = "MEASURE_MEDIAN", !.stageStartMs = t,
                               !.nextSampleMs = t, !.sampleIndex = 0],
               c |-> setSwirler(c, FALSE)]
         ELSE [m |-> m, c |-> c]
    [] m.stage = "MEASURE_WAIT" ->
         IF /\ t - m.stageStartMs >= scaled(RT_WAIT_BETWEEN_CYCLES_MS)
            /\ c.ctx.currentAction = "ACTION_NONE"
         THEN [m |-> [m EXCEPT !.stage = "MEASURE_SWIRL", !.stageStartMs = t],
               c |-> setSwirler(c, TRUE)]
         ELSE [m |-> m, c |-> c]
    [] OTHER -> [m |-> m, c |-> c]

\* MEASURE_IDLE, MEASURE_SWIRL and MEASURE_WAIT: [m |-> MeasureContext, c |-> Ctl]
measureTimed(m, c, t) ==
  CASE m.stage = "MEASURE_IDLE" ->
         [m |-> [m EXCEPT !.stage = "MEASURE_SWIRL", !.stageStartMs = t],
          c |-> setSwirler(c, TRUE)]
    [] m.stage = "MEASURE_SWIRL" ->
         IF t - m.stageStartMs >= scaled(RT_MEASURE_SWIRL_DURATION_MS)
         THEN [m |-> [m EXCEPT !.stage = "MEASURE_MEDIAN", !.stageStartMs = t,
                               !.nextSampleMs = t, !.sampleIndex = 0],
               c |-> setSwirler(c, FALSE)]
         ELSE [m |-> m, c |-> c]
    [] m.stage = "MEASURE_WAIT" ->
         IF t - m.stageStartMs >= scaled(RT_WAIT_BETWEEN_CYCLES_MS)
         THEN [m |-> [m EXCEPT !.stage = "MEASURE_SWIRL", !.stageStartMs = t],
               c |-> setSwirler(c, TRUE)]
         ELSE [m |-> m, c |-> c]
    [] OTHER -> [m |-> m, c |-> c]

\* MEASURE_MEDIAN: store one sample s when due, then test the count
sampleDue(m, t) == t >= m.nextSampleMs /\ m.sampleIndex < MEDIAN_SAMPLE_COUNT

takeSample(m, s) ==
  [m EXCEPT !.rhSamples[m.sampleIndex + 1] = s.rh,
            !.tempSamples[m.sampleIndex + 1] = s.temp,
            !.co2Samples[m.sampleIndex + 1] = s.co2,
            !.sampleIndex = m.sampleIndex + 1,
            !.nextSampleMs = m.nextSampleMs + scaled(RT_MEDIAN_SAMPLE_PERIOD_MS)]

medianDone(m) ==
  IF m.sampleIndex >= MEDIAN_SAMPLE_COUNT THEN [m EXCEPT !.stage = "MEASURE_EVALUATE"] ELSE m

\* MEASURE_EVALUATE: the filtered reading handed to controllerEvaluate
medianSensors(m) ==
  [rh |-> medianFloat(m.rhSamples, MEDIAN_SAMPLE_COUNT),
   temp |-> medianFloat(m.tempSamples, MEDIAN_SAMPLE_COUNT),
   co2 |-> medianInt(m.co2Samples, MEDIAN_SAMPLE_COUNT)]

measureEvaluate(m, c, t) ==
  [m |-> [m EXCEPT !.stage = "MEASURE_WAIT", !.stageStartMs = t],
   c |-> controllerEvaluate(c, medianSensors(m), t)]

MeasurementTick ==
  /\ pc = "measure"
  /\ pc' = "action"
  /\ CASE g_measureCtx.stage = "MEASURE_MEDIAN" ->
            /\ IF sampleDue(g_measureCtx, now)
               THEN \E sim2 \in SimRead(g_simSensor, now, simMoves < MaxSensorMoves) :
                      /\ ReadSensors(sim2)
                      /\ g_measureCtx' = medianDone(takeSample(g_measureCtx, reading(sim2)))
               ELSE /\ NoRead
                    /\ g_measureCtx' = medianDone(g_measureCtx)
            /\ SetCtl(Ctl)
       [] g_measureCtx.stage = "MEASURE_EVALUATE" ->
            LET r == measureEvaluate(g_measureCtx, Ctl, now)
            IN  /\ g_measureCtx' = r.m
                /\ SetCtl(r.c)
                /\ NoRead
       [] OTHER ->
            LET r == measureTimed(g_measureCtx, Ctl, now)
            IN  /\ g_measureCtx' = r.m
                /\ SetCtl(r.c)
                /\ NoRead
  /\ UNCHANGED << now, g_co2_setpoint, g_rh_setpoint, g_temp_setpoint,
                  g_nextSampleMs, lastCheckMs, hist, storeVars, unitVars >>

ActionTick ==
  /\ pc = "action"
  /\ pc' = "heater"
  /\ LET c == actionTick(Ctl, now)
     IN  /\ SetCtl(c)
         /\ hist' = HistAfter(c)
  /\ UNCHANGED << now, g_simSensor, simMoves, g_co2_setpoint, g_rh_setpoint,
                  g_temp_setpoint, g_measureCtx, g_nextSampleMs, lastCheckMs, storeVars, unitVars >>

\* heaterTick's interval gate
heaterDue(t) == ~(t - lastCheckMs < scaled(HEATER_CHECK_INTERVAL_MS))

\* mutant: one threshold, the heater follows temp < setpoint
heaterDecide_noDeadBand(heater, temp) == temp < g_temp_setpoint

\* the two-point decision of heaterTick
heaterDecide(heater, temp) ==
  IF ~heater /\ temp < g_temp_setpoint - HEATER_ON_THRESHOLD THEN TRUE
  ELSE IF heater /\ temp >= g_temp_setpoint THEN FALSE
  ELSE heater

HeaterTick ==
  /\ pc = "heater"
  /\ pc' = "idle"
  /\ IF heaterDue(now)
     THEN /\ lastCheckMs' = now
          /\ \E sim2 \in SimRead(g_simSensor, now, simMoves < MaxSensorMoves) :
               /\ ReadSensors(sim2)
               /\ g_heaterState' = heaterDecide(g_heaterState, sim2.temp)
     ELSE /\ NoRead
          /\ UNCHANGED << lastCheckMs, g_heaterState >>
  /\ UNCHANGED << now, g_co2_setpoint, g_rh_setpoint, g_temp_setpoint, g_actionCtx,
                  g_swirlerState, g_freshAirState, g_foggerState, g_measureCtx,
                  g_nextSampleMs, hist, storeVars, unitVars >>

\* the rest of loop(): time passes until the next controller_tick
Advance ==
  /\ pc = "idle"
  /\ now + TickMs <= MaxTime
  /\ now' = now + TickMs
  /\ pc' = "sample"
  /\ UNCHANGED << g_simSensor, simMoves, g_co2_setpoint, g_rh_setpoint, g_temp_setpoint,
                  g_actionCtx, g_swirlerState, g_freshAirState, g_foggerState,
                  g_heaterState, g_measureCtx, g_nextSampleMs, lastCheckMs, hist, storeVars, unitVars >>

Next == SampleTick \/ MeasurementTick \/ ActionTick \/ HeaterTick \/ Advance

Spec == Init /\ [][Next]_vars

\* The runs in which the simulated reading is settled by the first read after
\* boot and constant from then on, and the loop never stops by itself (weak
\* fairness of its steps).
Steady == simMoves' # simMoves => now = BootMs

SteadyNext ==
  \/ SampleTick /\ Steady
  \/ MeasurementTick /\ Steady
  \/ ActionTick
  \/ HeaterTick /\ Steady
  \/ Advance

LiveSpec == Init /\ [][SteadyNext]_vars /\ WF_vars(SteadyNext)

---------------------------------------------------------------------------
(* The storage program: setup() and loop() of main.cpp with initStorage,   *)
(* loadDataFromRingBuffer, handleIncrement, persistDataIfDue and           *)
(* saveDataToRingBuffer                                                    *)

ctlVars == << pc, g_simSensor, g_co2_setpoint, g_rh_setpoint, g_temp_setpoint,
              g_actionCtx, g_swirlerState, g_freshAirState, g_foggerState,
              g_heaterState, g_measureCtx, g_nextSampleMs, lastCheckMs,
              simMoves, hist >>

\* the controller's statics, untouched by this program
CtlParked ==
  /\ pc = "off"
  /\ g_simSensor = SimSensorInit
  /\ g_co2_setpoint = 800
  /\ g_rh_setpoint = 950
  /\ g_temp_setpoint = 250
  /\ g_actionCtx = [currentAction |-> "ACTION_NONE", currentStage |-> "STAGE_IDLE",
                    stageStartMs |-> 0, rhUpLockoutUntilMs |-> 0,
                    rhDownLockoutUntilMs |-> 0, lastVentilationMs |-> 0]
  /\ g_swirlerState = FALSE
  /\ g_freshAirState = FALSE
  /\ g_foggerState = FALSE
  /\ g_heaterState = FALSE
  /\ g_measureCtx = [stage |-> "MEASURE_IDLE", stageStartMs |-> 0, nextSampleMs |-> 0,
                     sampleIndex |-> 0, rhSamples |-> ZeroSamples,
                     tempSamples |-> ZeroSamples, co2Samples |-> ZeroSamples]
  /\ g_nextSampleMs = 0
  /\ lastCheckMs = 0
  /\ simMoves = 0
  /\ hist = [rhDownDoneMs |-> -1, rhUpDoneMs |-> -1]

\* a zero-initialised static slot
ZeroSlot == [sequence |-> U32(0), values |-> ZeroValues, crc |-> 0, padding |-> 0]

\* statics as the C++ runtime leaves them; the region holds one of images
StoreInitWith(images) ==
  /\ now = StoreBootMs
  /\ CtlParked
  /\ UnitParked
  /\ spc = "init"
  /\ g_storageInitialized = FALSE
  /\ g_flashAvailable = FALSE
  /\ g_ringBuffer = [s \in Slots |-> ZeroSlot]
  /\ flash \in images
  /\ g_currentSlot = 0
  /\ g_values = ZeroValues
  /\ g_valuesDirty = FALSE
  /\ g_lastValueChangeMs = 0
  /\ faults = 0
  /\ slog = NoLog(flash = [s \in Slots |-> ErasedSlot])

\* mutant: without a device the storage is left uninitialised
InitStorage_noFallback ==
  /\ spc = "init"
  /\ spc' = "load"
  /\ g_flashAvailable' \in BOOLEAN
  /\ g_ringBuffer' = [s \in Slots |-> ErasedSlot]
  /\ g_storageInitialized' = g_flashAvailable'
  /\ UNCHANGED << now, ctlVars, unitVars, flash, g_currentSlot, g_values, g_valuesDirty,
                  g_lastValueChangeMs, faults, slog >>

\* initStorage; fb_init succeeds or fails (no device in the build, init error,
\* region larger than the device)
InitStorage ==
  /\ spc = "init"
  /\ spc' = "load"
  /\ g_flashAvailable' \in BOOLEAN
  /\ g_ringBuffer' = [s \in Slots |-> ErasedSlot]
  /\ g_storageInitialized' = TRUE
  /\ UNCHANGED << now, ctlVars, unitVars, flash, g_currentSlot, g_values, g_valuesDirty,
                  g_lastValueChangeMs, faults, slog >>

\* the recovery scan's result before the first slot
NoBest == [found |-> FALSE, highestSeq |-> U32(0), highestSlot |-> 0]

\* one iteration of the scan loop of loadDataFromRingBuffer
scanSlot(best, slot, e, readOk) ==
  IF ~readOk THEN best
  ELSE IF crc8(entryBytes(e)) # e.crc THEN best
  ELSE IF e.sequence = SEQ_UNWRITTEN THEN best
  ELSE IF seqGreater(e.sequence, best.highestSeq)
       THEN [found |-> TRUE, highestSeq |-> e.sequence, highestSlot |-> slot]
  ELSE best

RECURSIVE scanFrom(_, _, _, _)
scanFrom(mem, slot, best, failed) ==
  IF slot >= NumSlots THEN best
  ELSE scanFrom(mem, slot + 1, scanSlot(best, slot, mem[slot], slot \notin failed), failed)

\* first slot of the RAM scan
ramScanStart == IF NumSlots > RAM_SCAN_SLOTS THEN NumSlots - RAM_SCAN_SLOTS ELSE 0

\* mutant: without a valid slot the cursor goes to the last slot
cursorAfter_last(best) ==
  IF best.found THEN (best.highestSlot + 1) % NumSlots ELSE NumSlots - 1

\* the write cursor loadDataFromRingBuffer leaves
cursorAfter(best) == IF best.found THEN (best.highestSlot + 1) % NumSlots ELSE 0

\* the live values loadDataFromRingBuffer leaves
valuesAfter(best, mem, rereadOk) ==
  IF best.found /\ rereadOk THEN mem[best.highestSlot].values ELSE ZeroValues

\* loadDataFromRingBuffer; on the device every fb_read_slot may fail
LoadData ==
  /\ spc = "load"
  /\ spc' = "http"
  /\ IF ~g_storageInitialized
     THEN /\ g_values' = ZeroValues
          /\ UNCHANGED << g_currentSlot, faults, slog >>
     ELSE IF g_flashAvailable
     THEN \E failed \in SUBSET Slots, rereadOk \in BOOLEAN :
            LET best == scanFrom(flash, 0, NoBest, failed)
                nf == Cardinality(failed) + (IF rereadOk THEN 0 ELSE 1)
            IN  /\ faults + nf <= MaxFaults
                /\ ~best.found => rereadOk
                /\ faults' = faults + nf
                /\ g_values' = valuesAfter(best, flash, rereadOk)
                /\ g_currentSlot' = cursorAfter(best)
                /\ slog' = [slog EXCEPT !.fbCalled = TRUE, !.found = best.found]
     ELSE LET best == scanFrom(g_ringBuffer, ramScanStart, NoBest, {})
          IN  /\ g_values' = valuesAfter(best, g_ringBuffer, TRUE)
              /\ g_currentSlot' = cursorAfter(best)
              /\ slog' = [slog EXCEPT !.found = best.found]
              /\ UNCHANGED faults
  /\ UNCHANGED << now, ctlVars, unitVars, g_storageInitialized, g_flashAvailable, g_ringBuffer,
                  flash, g_valuesDirty, g_lastValueChangeMs >>

\* handleHttpClients: no request, or one request served by handleIncrement
HandleHttp ==
  /\ spc = "http"
  /\ spc' = "persist"
  /\ \E inc \in BOOLEAN :
       IF inc
       THEN /\ g_values' = [g_values EXCEPT ![1] = (@ + 1) % 65536]
            /\ g_valuesDirty' = TRUE
            /\ g_lastValueChangeMs' = now
       ELSE UNCHANGED << g_values, g_valuesDirty, g_lastValueChangeMs >>
  /\ UNCHANGED << now, ctlVars, unitVars, g_storageInitialized, g_flashAvailable, g_ringBuffer,
                  flash, g_currentSlot, faults, slog >>

\* the slot before the cursor, wrapping
prevSlotOf(cur) == IF cur = 0 THEN NumSlots - 1 ELSE cur - 1

\* the sequence number of the record a save builds
nextSequence(prevSeq) == IF prevSeq # SEQ_UNWRITTEN THEN incFrom(prevSeq, 1) ELSE U32(1)

\* mutant: the cursor stays where it is
nextSlot_stays(cur) == cur

\* the cursor after a save
nextSlot(cur) == (cur + 1) % NumSlots

\* mutant: the region is erased before every write
needsErase_always(probe) == TRUE

\* the probe of the destination slot: some byte is not 0xFF
needsErase(probe) == ~isErased(probe)

\* the flash path of saveDataToRingBuffer under the device outcomes f:
\* [prevOk, probeOk, eraseOk : BOOLEAN, write : "ok", "failed", "torn"]; a program
\* call that reports failure leaves the slot as it was ("failed") or with only its
\* first bytes, the sequence field, programmed ("torn"); afterErase is the region
\* between the erase and the fb_write_slot call
saveFlash(fl, cur, values, f) ==
  LET prevSeq == IF f.prevOk THEN fl[prevSlotOf(cur)].sequence ELSE SEQ_UNWRITTEN
      erase == f.probeOk /\ needsErase(fl[cur])
      fl1 == IF erase /\ f.eraseOk THEN [s \in Slots |-> ErasedSlot] ELSE fl
      \* the region after the program call for the entry built
      fl2(entry) ==
        CASE f.write = "ok" -> [fl1 EXCEPT ![cur] = programmed(@, entry)]
          [] f.write = "torn" ->
               [fl1 EXCEPT ![cur].sequence = programmed(fl1[cur], entry).sequence]
          [] OTHER -> fl1
  IN  \* the entry is built once, before the device is written
      CHOOSE r \in { [flash |-> fl2(entry), entry |-> entry, erase |-> erase,
                      afterErase |-> fl1] :
                       entry \in { makeEntry(nextSequence(prevSeq), values) } } : TRUE

\* the RAM path of saveDataToRingBuffer
saveRam(buf, cur, values) ==
  LET entry == makeEntry(nextSequence(buf[prevSlotOf(cur)].sequence), values)
  IN  [buf |-> [buf EXCEPT ![cur] = entry], entry |-> entry]

\* number of device calls that fail under f
faultsOf(f) ==
  (IF f.prevOk THEN 0 ELSE 1) + (IF f.probeOk THEN 0 ELSE 1)
    + (IF f.eraseOk THEN 0 ELSE 1) + (IF f.write = "ok" THEN 0 ELSE 1)

\* the device outcomes a save may meet within the fault budget (eraseOk is
\* meaningful only when fb_erase_region is called)
SaveOutcomes(fl, cur) ==
  { f \in [prevOk : BOOLEAN, probeOk : BOOLEAN, eraseOk : BOOLEAN,
           write : { "ok", "failed", "torn" }] :
      /\ (~(f.probeOk /\ needsErase(fl[cur]))) => f.eraseOk
      /\ faults + faultsOf(f) <= MaxFaults }

\* saveDataToRingBuffer
SaveData ==
  IF ~g_storageInitialized
  THEN UNCHANGED << g_ringBuffer, flash, g_currentSlot, g_valuesDirty, faults, slog >>
  ELSE /\ g_currentSlot' = nextSlot(g_currentSlot)
       /\ g_valuesDirty' = FALSE
       /\ IF g_flashAvailable
          THEN \E f \in SaveOutcomes(flash, g_currentSlot) :
                 LET r == saveFlash(flash, g_currentSlot, g_values, f)
                 IN  /\ flash' = r.flash
                     /\ faults' = faults + faultsOf(f)
                     /\ slog' = [slog EXCEPT
                                   !.n = @ + 1, !.sequence = r.entry.sequence,
                                   !.slot = g_currentSlot, !.ms = now,
                                   !.erase = r.erase,
                                   !.destErased = isErased(flash[g_currentSlot]),
                                   !.writeOk = (f.write = "ok"),
                                   !.written = IF f.write = "ok"
                                               THEN r.entry.sequence ELSE @,
                                   !.fbCalled = TRUE]
                     /\ UNCHANGED g_ringBuffer
          ELSE LET r == saveRam(g_ringBuffer, g_currentSlot, g_values)
               IN  /\ g_ringBuffer' = r.buf
                   /\ slog' = [slog EXCEPT
                                 !.n = @ + 1, !.sequence = r.entry.sequence,
                                 !.slot = g_currentSlot, !.ms = now, !.erase = FALSE,
                                 !.destErased = isErased(g_ringBuffer[g_currentSlot]),
                                 !.writeOk = TRUE, !.written = r.entry.sequence]
                   /\ UNCHANGED << flash, faults >>

\* mutant: a dirty value set is saved at once, without the debounce wait
persistDue_noDebounce(initialized, dirty, lastChange, t) == initialized /\ dirty

\* mutant: the dirty flag is not looked at
persistDue_ignoresDirty(initialized, dirty, lastChange, t) ==
  initialized /\ ~(t - lastChange < PERSIST_INTERVAL_MS)

\* mutant: the dirty flag is read the wrong way round
persistDue_whenClean(initialized, dirty, lastChange, t) ==
  initialized /\ ~dirty /\ ~(t - lastChange < PERSIST_INTERVAL_MS)

\* the gate of persistDataIfDue
persistDue(initialized, dirty, lastChange, t) ==
  /\ initialized
  /\ dirty
  /\ ~(t - lastChange < PERSIST_INTERVAL_MS)

\* persistDataIfDue
PersistTick ==
  /\ spc = "persist"
  /\ spc' = "idle"
  /\ IF persistDue(g_storageInitialized, g_valuesDirty, g_lastValueChangeMs, now)
     THEN SaveData
     ELSE UNCHANGED << g_ringBuffer, flash, g_currentSlot, g_valuesDirty, faults, slog >>
  /\ UNCHANGED << now, ctlVars, unitVars, g_storageInitialized, g_flashAvailable, g_values,
                  g_lastValueChangeMs >>

\* the rest of loop(): time passes until the next iteration
StoreAdvance ==
  /\ spc = "idle"
  /\ now + StoreTickMs <= StoreMaxTime
  /\ now' = now + StoreTickMs
  /\ spc' = "http"
  /\ UNCHANGED << ctlVars, unitVars, g_storageInitialized, g_flashAvailable, g_ringBuffer, flash,
                  g_currentSlot, g_values, g_valuesDirty, g_lastValueChangeMs,
                  faults, slog >>

StoreNext == InitStorage \/ LoadData \/ HandleHttp \/ PersistTick \/ StoreAdvance

\* the program on a region that holds a log of its own
StoreInit == StoreInitWith(RunImages)
StoreSpec == StoreInit /\ [][StoreNext]_vars

\* setup() alone, on every content of the region
LoadInit == StoreInitWith(FlashImages)
LoadNext == InitStorage \/ LoadData
LoadSpec == LoadInit /\ [][LoadNext]_vars

---------------------------------------------------------------------------
(* Vocabulary of the properties                                            *)

NoAction == g_actionCtx.currentAction = "ACTION_NONE"

\* the measurement machine is about to run MEASURE_EVALUATE
Evaluating == pc = "measure" /\ g_measureCtx.stage = "MEASURE_EVALUATE"
EvalStep == Evaluating /\ pc' = "action"

\* an evaluation has just run in this tick
JustEvaluated ==
  /\ pc = "action"
  /\ g_measureCtx.stage = "MEASURE_WAIT"
  /\ g_measureCtx.stageStartMs = now

\* the filtered reading the evaluation sees (the samples stay in place afterwards)
Filtered == medianSensors(g_measureCtx)

Starts(kind) == NoAction /\ g_actionCtx'.currentAction = kind

SameAction ==
  /\ g_actionCtx'.currentAction = g_actionCtx.currentAction
  /\ g_actionCtx'.currentStage = g_actionCtx.currentStage
  /\ g_actionCtx'.stageStartMs = g_actionCtx.stageStartMs

ActionTypes == {"ACTION_NONE", "ACTION_CO2", "ACTION_RH_DOWN", "ACTION_RH_UP", "ACTION_BASELINE"}

\* the stage sequences and nominal stage durations the specification gives
StageSeq(kind) ==
  CASE kind = "ACTION_CO2" -> << "STAGE_CO2_SWIRL", "STAGE_CO2_SETTLE" >>
    [] kind = "ACTION_RH_DOWN" ->
         << "STAGE_RH_DOWN_FRESHAIR", "STAGE_RH_DOWN_SWIRL", "STAGE_RH_DOWN_SETTLE" >>
    [] kind = "ACTION_RH_UP" ->
         << "STAGE_RH_UP_FOGGER", "STAGE_RH_UP_MIX", "STAGE_RH_UP_SETTLE" >>
    [] kind = "ACTION_BASELINE" -> << "STAGE_BASELINE_FRESHAIR", "STAGE_BASELINE_SETTLE" >>
    [] OTHER -> << >>

StageDurationMs(stage) ==
  CASE stage = "STAGE_CO2_SWIRL" -> RT_CO2_SWIRL_MS
    [] stage = "STAGE_CO2_SETTLE" -> RT_CO2_SETTLE_MS
    [] stage = "STAGE_RH_DOWN_FRESHAIR" -> RT_RH_DOWN_FRESHAIR_MS
    [] stage = "STAGE_RH_DOWN_SWIRL" -> RT_RH_DOWN_SWIRL_MS
    [] stage = "STAGE_RH_DOWN_SETTLE" -> RT_RH_DOWN_SETTLE_MS
    [] stage = "STAGE_RH_UP_FOGGER" -> RT_RH_UP_FOGGER_MS
    [] stage = "STAGE_RH_UP_MIX" -> RT_RH_UP_MIX_MS
    [] stage = "STAGE_RH_UP_SETTLE" -> RT_RH_UP_SETTLE_MS
    [] stage = "STAGE_BASELINE_FRESHAIR" -> RT_BASELINE_FRESHAIR_MS
    [] stage = "STAGE_BASELINE_SETTLE" -> RT_BASELINE_SETTLE_MS
    [] OTHER -> 0

StagePos(kind, stage) ==
  IF \E i \in 1..Len(StageSeq(kind)) : StageSeq(kind)[i] = stage
  THEN CHOOSE i \in 1..Len(StageSeq(kind)) : StageSeq(kind)[i] = stage
  ELSE 0

\* the current stage's scaled duration has elapsed at this step of the sequencer
StageDue ==
  /\ pc = "action"
  /\ now - g_actionCtx.stageStartMs >= scaled(StageDurationMs(g_actionCtx.currentStage))

---------------------------------------------------------------------------
(* C1: at most one action is active, and an evaluation that runs while an  *)
(* action is active starts nothing: kind, stage and stage-start time are   *)
(* the same after the evaluation as before it.                             *)

C1_NoPreemption ==
  /\ [](g_actionCtx.currentAction \in ActionTypes)
  /\ [][(EvalStep /\ ~NoAction) => SameAction]_vars

\* an evaluation has just run while an action started earlier was still active
C1_Witness ==
  /\ JustEvaluated
  /\ ~NoAction
  /\ g_actionCtx.stageStartMs < now

---------------------------------------------------------------------------
(* C2: while an action is active its kind never changes; its stage only    *)
(* moves to the next stage of the kind's sequence, and only in a step of   *)
(* the sequencer in which now - stage_start >= scaled(stage duration);     *)
(* the context returns to 'no action' only that way, from the last stage.  *)

C2_StagesTimeBased ==
  [][ ~NoAction =>
        LET kind == g_actionCtx.currentAction
            pos == StagePos(kind, g_actionCtx.currentStage)
        IN  /\ pos > 0
            /\ \/ SameAction
               \/ /\ StageDue
                  /\ IF pos = Len(StageSeq(kind))
                     THEN /\ g_actionCtx'.currentAction = "ACTION_NONE"
                          /\ g_actionCtx'.currentStage = "STAGE_IDLE"
                     ELSE /\ g_actionCtx'.currentAction = kind
                          /\ g_actionCtx'.currentStage = StageSeq(kind)[pos + 1]
                          /\ g_actionCtx'.stageStartMs = now ]_vars

\* a baseline action has moved from FRESHAIR to SETTLE in this tick
C2_Witness ==
  /\ pc = "heater"
  /\ g_actionCtx.currentAction = "ACTION_BASELINE"
  /\ g_actionCtx.currentStage = "STAGE_BASELINE_SETTLE"
  /\ g_actionCtx.stageStartMs = now

---------------------------------------------------------------------------
(* C3: every started action completes: under fair repetition of the tick   *)
(* and advancing time, from every state with an active action a state      *)
(* with no active action is reached. The run stops at MaxTime, so the      *)
(* states covered are those that leave the action its own time to finish.  *)

\* the time an action of this kind needs: its scaled stage durations, each stage
\* left at most one loop period late
RECURSIVE SeqDurationMs(_)
SeqDurationMs(seq) ==
  IF seq = << >> THEN 0
  ELSE scaled(StageDurationMs(Head(seq))) + TickMs + SeqDurationMs(Tail(seq))

ActionBoundMs(kind) == SeqDurationMs(StageSeq(kind)) + TickMs

C3_ActionCompletes ==
  []((~NoAction /\ now + ActionBoundMs(g_actionCtx.currentAction) <= MaxTime)
       => <>NoAction)

\* an RH-raising action, the longest one, has just run to completion
C3_Witness ==
  /\ pc = "heater"
  /\ NoAction
  /\ hist.rhUpDoneMs = now

---------------------------------------------------------------------------
(* C4: after an RH-lowering action completes at time t no RH-raising       *)
(* action starts before t + scaled(lockout), and after an RH-raising       *)
(* action completes at time t no RH-lowering action starts before          *)
(* t + scaled(lockout), whatever the filtered RH is in between.            *)

InWindowAfter(done) == done >= 0 /\ now < done + scaled(RT_RH_LOCKOUT_MS)

C4_OppositeLockout ==
  [][ /\ Starts("ACTION_RH_UP") => ~InWindowAfter(hist.rhDownDoneMs)
      /\ Starts("ACTION_RH_DOWN") => ~InWindowAfter(hist.rhUpDoneMs) ]_vars

\* an evaluation inside the window after an RH-lowering action saw low RH
\* and started nothing
C4_Witness ==
  /\ JustEvaluated
  /\ NoAction
  /\ InWindowAfter(hist.rhDownDoneMs)
  /\ Filtered.rh < g_rh_setpoint - RH_HYSTERESIS
  /\ ~(Filtered.co2 > g_co2_setpoint)

---------------------------------------------------------------------------
(* C5: end to end, with no RH-raising action before and a constant         *)
(* filtered RH above setpoint + hysteresis (filtered CO2 not above the     *)
(* CO2 setpoint), an RH-lowering action starts and runs to completion.     *)

\* no RH-raising action has completed, so no RH-lowering lockout was ever set
NoPriorLockout == hist.rhUpDoneMs = -1

HighRhSeen ==
  /\ Filtered.rh > g_rh_setpoint + RH_HYSTERESIS
  /\ ~(Filtered.co2 > g_co2_setpoint)

\* C5 as stated: an evaluation that sees the same high RH within the lockout
\* window after that completion does not start a new RH-lowering action.
C5_AsStated ==
  [][ (EvalStep /\ NoAction /\ NoPriorLockout /\ HighRhSeen
         /\ InWindowAfter(hist.rhDownDoneMs))
        => g_actionCtx'.currentAction # "ACTION_RH_DOWN" ]_vars

\* C5 as amended: every such evaluation, also one inside the lockout window
\* after an RH-lowering completion, starts an RH-lowering action; the deadline
\* that completion sets gates RH-raising only.
C5_HighRhStartsLowering ==
  [][ (EvalStep /\ NoAction /\ NoPriorLockout /\ HighRhSeen)
        => /\ g_actionCtx'.currentAction = "ACTION_RH_DOWN"
           /\ g_actionCtx'.currentStage = "STAGE_RH_DOWN_FRESHAIR"
           /\ g_actionCtx'.stageStartMs = now ]_vars

\* a second RH-lowering action was started inside the window after the first
C5_Witness ==
  /\ JustEvaluated
  /\ NoPriorLockout
  /\ HighRhSeen
  /\ InWindowAfter(hist.rhDownDoneMs)
  /\ g_actionCtx.currentAction = "ACTION_RH_DOWN"
  /\ g_actionCtx.stageStartMs = now

---------------------------------------------------------------------------
(* The decision ladder as the specification states it                      *)

Rule1 == Filtered.co2 > g_co2_setpoint + CONTROL_THRESHOLD
Rule2 ==
  /\ Filtered.rh > g_rh_setpoint + RH_HYSTERESIS
  /\ now >= g_actionCtx.rhDownLockoutUntilMs
Rule3 ==
  /\ Filtered.rh < g_rh_setpoint - RH_HYSTERESIS
  /\ now >= g_actionCtx.rhUpLockoutUntilMs
Rule4 == now - g_actionCtx.lastVentilationMs >= scaled(RT_BASELINE_INTERVAL_MS)

FirstMatch ==
  IF Rule1 THEN "ACTION_CO2"
  ELSE IF Rule2 THEN "ACTION_RH_DOWN"
  ELSE IF Rule3 THEN "ACTION_RH_UP"
  ELSE IF Rule4 THEN "ACTION_BASELINE"
  ELSE "ACTION_NONE"

---------------------------------------------------------------------------
(* C6: at an evaluation with no action active, a CO2-reduction action is   *)
(* started if and only if the filtered CO2 reading is above                *)
(* setpoint + threshold (100 ppm): 950 against 800 starts it, 850 against  *)
(* 800 does not.                                                           *)

C6_Co2Threshold ==
  [][ (EvalStep /\ NoAction)
        => (g_actionCtx'.currentAction = "ACTION_CO2" <=> Rule1) ]_vars

---------------------------------------------------------------------------
(* C7: an evaluation with no action active starts at most one action, the  *)
(* first match in the order CO2-reduction, RH-lowering, RH-raising,        *)
(* baseline; if no rule's condition holds it starts none.                  *)

C7_FirstMatchWins ==
  [][ (EvalStep /\ NoAction) => g_actionCtx'.currentAction = FirstMatch ]_vars

---------------------------------------------------------------------------
(* C8: at an evaluation with no action active and rules 1-3 not matching,  *)
(* a baseline action is started if and only if no ventilation has started  *)
(* within the last scaled baseline interval; starting it records the       *)
(* current time as last-ventilation time.                                  *)

C8_BaselineWhenDue ==
  [][ (EvalStep /\ NoAction /\ ~Rule1 /\ ~Rule2 /\ ~Rule3)
        => /\ g_actionCtx'.currentAction = "ACTION_BASELINE" <=> Rule4
           /\ g_actionCtx'.currentAction = "ACTION_BASELINE"
                => g_actionCtx'.lastVentilationMs = now ]_vars

---------------------------------------------------------------------------
(* C9: the heater output goes from off to on only at a heater check where  *)
(* temperature < setpoint - on_threshold, and from on to off only at a     *)
(* heater check where temperature >= setpoint; no step of the action       *)
(* sequencer and no measurement step changes it.                           *)

C9_HeaterOnlyAtCheck ==
  [][ g_heaterState' # g_heaterState
        => /\ pc = "heater"
           /\ heaterDue(now)
           /\ IF g_heaterState'
              THEN g_simSensor'.temp < g_temp_setpoint - HEATER_ON_THRESHOLD
              ELSE g_simSensor'.temp >= g_temp_setpoint ]_vars

---------------------------------------------------------------------------
(* C10: the measurement machine's stage changes only along                 *)
(* IDLE -> SWIRL -> MEDIAN_SAMPLE -> EVALUATE -> WAIT -> SWIRL; it leaves  *)
(* SWIRL only after the scaled swirl duration and WAIT only after the      *)
(* scaled wait duration, no stage is terminal, and the decision engine     *)
(* runs once per cycle, in the one step that leaves EVALUATE.              *)

MeasureEdges ==
  { << "MEASURE_IDLE", "MEASURE_SWIRL" >>, << "MEASURE_SWIRL", "MEASURE_MEDIAN" >>,
    << "MEASURE_MEDIAN", "MEASURE_EVALUATE" >>, << "MEASURE_EVALUATE", "MEASURE_WAIT" >>,
    << "MEASURE_WAIT", "MEASURE_SWIRL" >> }

MeasureElapsed == now - g_measureCtx.stageStartMs

C10_MeasurementCycle ==
  [][ LET from == g_measureCtx.stage
          to == g_measureCtx'.stage
          measureStep == pc = "measure" /\ pc' = "action"
      IN  /\ from # to => measureStep /\ << from, to >> \in MeasureEdges
          /\ (from = "MEASURE_SWIRL" /\ to # from)
               => MeasureElapsed >= scaled(RT_MEASURE_SWIRL_DURATION_MS)
          /\ (from = "MEASURE_WAIT" /\ to # from)
               => MeasureElapsed >= scaled(RT_WAIT_BETWEEN_CYCLES_MS)
          \* no stage is terminal: a stage whose exit condition holds is left
          /\ (measureStep /\ from = "MEASURE_SWIRL"
                /\ MeasureElapsed >= scaled(RT_MEASURE_SWIRL_DURATION_MS))
               => to = "MEASURE_MEDIAN"
          /\ (measureStep /\ from = "MEASURE_WAIT"
                /\ MeasureElapsed >= scaled(RT_WAIT_BETWEEN_CYCLES_MS))
               => to = "MEASURE_SWIRL"
          /\ (measureStep /\ from = "MEASURE_MEDIAN"
                /\ g_measureCtx'.sampleIndex >= MEDIAN_SAMPLE_COUNT)
               => to = "MEASURE_EVALUATE"
          \* the evaluation is one step, and only that step starts an action
          /\ (measureStep /\ from = "MEASURE_EVALUATE") => to = "MEASURE_WAIT"
          /\ (NoAction /\ ~NoAction')
               => from = "MEASURE_EVALUATE" /\ to = "MEASURE_WAIT" ]_vars

\* a second cycle has begun: WAIT has just been left for SWIRL
C10_Witness ==
  /\ pc = "action"
  /\ g_measureCtx.stage = "MEASURE_SWIRL"
  /\ g_measureCtx.stageStartMs = now
  /\ g_measureCtx.sampleIndex = MEDIAN_SAMPLE_COUNT

---------------------------------------------------------------------------
(* C11: the measurement cycle is never blocked by the action sequencer:    *)
(* while the loop keeps running, the measurement machine comes to EVALUATE *)
(* again and again (within one cycle's length from any state, as far as    *)
(* the horizon reaches), whether or not an action is active, and its next  *)
(* stage is a function of its own stage, timers and sample count alone.    *)

\* an upper bound of one full cycle, loop granularity included
MeasureCycleBoundMs ==
  scaled(RT_MEASURE_SWIRL_DURATION_MS) + scaled(RT_WAIT_BETWEEN_CYCLES_MS)
    + (MEDIAN_SAMPLE_COUNT + 3) * TickMs

\* the next stage as the machine's own timers and sample count give it
OwnNextStage ==
  LET m == g_measureCtx
      idx == IF now >= m.nextSampleMs /\ m.sampleIndex < MEDIAN_SAMPLE_COUNT
             THEN m.sampleIndex + 1 ELSE m.sampleIndex
  IN  CASE m.stage = "MEASURE_IDLE" -> "MEASURE_SWIRL"
        [] m.stage = "MEASURE_SWIRL" ->
             IF MeasureElapsed >= scaled(RT_MEASURE_SWIRL_DURATION_MS)
             THEN "MEASURE_MEDIAN" ELSE "MEASURE_SWIRL"
        [] m.stage = "MEASURE_MEDIAN" ->
             IF idx >= MEDIAN_SAMPLE_COUNT THEN "MEASURE_EVALUATE" ELSE "MEASURE_MEDIAN"
        [] m.stage = "MEASURE_EVALUATE" -> "MEASURE_WAIT"
        [] m.stage = "MEASURE_WAIT" ->
             IF MeasureElapsed >= scaled(RT_WAIT_BETWEEN_CYCLES_MS)
             THEN "MEASURE_SWIRL" ELSE "MEASURE_WAIT"

C11_MeasurementNeverBlocked ==
  /\ []((g_measureCtx.stage # "MEASURE_EVALUATE" /\ now + MeasureCycleBoundMs <= MaxTime)
          => <>(g_measureCtx.stage = "MEASURE_EVALUATE"))
  /\ [][(pc = "measure" /\ pc' = "action") => g_measureCtx'.stage = OwnNextStage]_vars

\* a later cycle reaches EVALUATE while an action is still running
C11_Witness ==
  /\ Evaluating
  /\ ~NoAction
  /\ now > BootMs + MeasureCycleBoundMs

---------------------------------------------------------------------------
(* Vocabulary of the storage properties                                    *)

LoadStep == spc = "load" /\ spc' = "http"
PersistStep == spc = "persist" /\ spc' = "idle"
\* a step in which saveDataToRingBuffer has run
SaveStep == PersistStep /\ slog'.n = slog.n + 1

\* validity of a slot as the specification defines it
ValidSlot(e) == crc8(entryBytes(e)) = e.crc /\ e.sequence # SEQ_UNWRITTEN

\* the memory the program works on, and the slots the recovery scan reads
Backing == IF g_flashAvailable THEN flash ELSE g_ringBuffer
Scanned == IF g_flashAvailable THEN Slots ELSE ramScanStart .. NumSlots - 1

\* w holds the valid record with the strictly highest sequence number
Winner(w) ==
  /\ w \in Scanned
  /\ ValidSlot(Backing[w])
  /\ \A o \in Scanned \ { w } :
       ValidSlot(Backing[o]) => seqGreater(Backing[w].sequence, Backing[o].sequence)

---------------------------------------------------------------------------
(* C12: for every content of the scanned slots, load selects the valid     *)
(* slot (CRC matches, sequence not 0xFFFFFFFF) with the strictly highest   *)
(* sequence number: its payload becomes the live values and the cursor is  *)
(* (winner + 1) mod slot count. (Stated for loads whose device reads       *)
(* succeed.)                                                               *)

---------------------------------------------------------------------------
(* C13: if load finds no valid slot among the scanned slots, all ten live  *)
(* values are zero and the write cursor is slot 0 afterwards, and the      *)
(* first save after such a cold start goes to slot 0.                      *)

C13_ColdStart ==
  [][ /\ (LoadStep /\ \A s \in Scanned : ~ValidSlot(Backing[s]))
          => /\ g_values' = ZeroValues
             /\ g_currentSlot' = 0
             /\ ~slog'.found
      /\ (SaveStep /\ ~slog.found /\ slog.n = 0) => slog'.slot = 0 ]_vars

\* after a cold start on the device a save has gone through
C13_Witness ==
  /\ g_flashAvailable
  /\ ~slog.found
  /\ slog.n = 1
  /\ slog.writeOk
  /\ ValidSlot(flash[0])
  /\ g_currentSlot = 1

---------------------------------------------------------------------------
(* C14: sequence numbers increase: the records written by successive saves *)
(* carry strictly increasing sequence numbers (each is the sequence read   *)
(* from slot cursor-1 plus one, or 1 for the sentinel), so the most        *)
(* recently written record holds the highest valid sequence.               *)

C14_SequencesIncrease ==
  [][ (SaveStep /\ slog'.writeOk /\ slog.written # << >>)
        => seqGreater(slog'.sequence, slog.written) ]_vars

---------------------------------------------------------------------------
(* C15: every save advances the write cursor by exactly one slot modulo    *)
(* the slot count, whether the device write succeeded or failed, and the   *)
(* cursor is within [0, slot count) in every reachable state.              *)

C15_CursorAdvances ==
  /\ [](g_currentSlot \in Slots)
  /\ [][ (PersistStep
            /\ persistDue(g_storageInitialized, g_valuesDirty, g_lastValueChangeMs, now))
           => /\ g_currentSlot' = (g_currentSlot + 1) % NumSlots
              /\ slog'.n = slog.n + 1 ]_vars

\* a save whose write failed has moved the cursor on, around the end of the buffer
C15_Witness ==
  /\ spc = "idle"
  /\ slog.n >= 1
  /\ ~slog.writeOk
  /\ slog.slot = NumSlots - 1
  /\ g_currentSlot = 0

---------------------------------------------------------------------------
(* C16: on the block device a save calls the region erase only when the    *)
(* destination slot is not fully erased; a save whose destination is       *)
(* erased erases nothing and changes no other slot; and from an erased     *)
(* region with no device failure, no erase happens before the save that    *)
(* wraps onto written data.                                                *)

C16_EraseOnlyOnWrap ==
  [][ (SaveStep /\ g_flashAvailable)
        => /\ slog'.erase => ~isErased(flash[g_currentSlot])
           /\ isErased(flash[g_currentSlot])
                => /\ ~slog'.erase
                   /\ \A s \in Slots \ { g_currentSlot } : flash'[s] = flash[s]
           /\ (slog'.erase /\ slog.blank /\ faults' = 0)
                => /\ slog.n >= NumSlots
                   /\ \A s \in Slots \ { g_currentSlot } : isErased(flash'[s]) ]_vars

\* the save that wraps has erased the region and written its record
C16_Witness ==
  /\ g_flashAvailable
  /\ slog.blank
  /\ faults = 0
  /\ slog.n = NumSlots + 1
  /\ slog.erase
  /\ slog.slot = 0
  /\ ValidSlot(flash[0])
  /\ \A s \in Slots \ { 0 } : isErased(flash[s])

---------------------------------------------------------------------------
(* C17: a persisted slot is immutable once written: on the device and in   *)
(* the RAM fallback, no save changes a slot that holds data except by      *)
(* erasing the whole region first.                                         *)

C17_NoOverwriteInPlace ==
  [][ SaveStep
        => \A s \in Slots :
             /\ (~isErased(flash[s]) /\ flash'[s] # flash[s])
                  => \A t \in Slots \ { g_currentSlot } : isErased(flash'[t])
             /\ (~isErased(g_ringBuffer[s]) /\ g_ringBuffer'[s] # g_ringBuffer[s])
                  => \A t \in Slots \ { g_currentSlot } : isErased(g_ringBuffer'[t]) ]_vars

---------------------------------------------------------------------------
(* C18: the persistence tick saves only when the dirty flag is set and at  *)
(* least the debounce interval has passed since the last value change; any *)
(* two saves are at least one debounce interval apart.                     *)

C18_Debounced ==
  [][ SaveStep
        => /\ g_valuesDirty
           /\ now - g_lastValueChangeMs >= PERSIST_INTERVAL_MS
           /\ slog.n >= 1 => now - slog.ms >= PERSIST_INTERVAL_MS ]_vars

\* a second save, and values changed again since
C18_Witness ==
  /\ slog.n = 2
  /\ g_valuesDirty
  /\ now - g_lastValueChangeMs < PERSIST_INTERVAL_MS
  /\ now - slog.ms >= PERSIST_INTERVAL_MS
  /\ spc = "idle"

---------------------------------------------------------------------------
(* C19: after any save attempt, a failed device write included, the dirty  *)
(* flag is false; only a value change sets it again, and no save is        *)
(* attempted while it is false (a failed write is not retried).            *)

C19_NoRetry ==
  [][ /\ SaveStep => ~g_valuesDirty'
      /\ slog'.n # slog.n => g_valuesDirty
      /\ (~g_valuesDirty /\ g_valuesDirty') => (spc = "http" /\ g_values' # g_values) ]_vars

\* a write failed, a debounce interval has passed, and nothing was retried
C19_Witness ==
  /\ slog.n = 1
  /\ ~slog.writeOk
  /\ ~g_valuesDirty
  /\ now - slog.ms >= PERSIST_INTERVAL_MS
  /\ spc = "idle"
  /\ g_flashAvailable

---------------------------------------------------------------------------
(* C20: if block-device init fails, storage is initialised with the        *)
(* availability flag false and the RAM buffer all 0xFF; every later load   *)
(* and save works on the RAM buffer only: no device read, write or erase   *)
(* is made and the region is left as it is.                                *)

C20_RamFallback ==
  /\ []((spc # "init" /\ ~g_flashAvailable) => (g_storageInitialized /\ ~slog.fbCalled))
  /\ [][ /\ (spc = "init" /\ ~g_flashAvailable')
              => g_ringBuffer' = [s \in Slots |-> ErasedSlot]
         /\ (spc # "init" /\ ~g_flashAvailable)
              => /\ flash' = flash
                 /\ faults' = faults
                 /\ ~g_flashAvailable'
         /\ (SaveStep /\ ~g_flashAvailable)
              => g_ringBuffer'[g_currentSlot] = makeEntry(slog'.sequence, g_values) ]_vars

\* without a device, a save has put a record into the RAM buffer
C20_Witness ==
  /\ ~g_flashAvailable
  /\ spc = "idle"
  /\ slog.n = 1
  /\ ValidSlot(g_ringBuffer[0])
  /\ flash # [s \in Slots |-> ErasedSlot]

---------------------------------------------------------------------------
(* C21: round trip: after a save whose write succeeded, the slot it wrote  *)
(* reads back with a stored CRC equal to the CRC recomputed over its       *)
(* sequence and payload bytes and with the payload that was saved, and a   *)
(* load run on the memory the save leaves restores exactly those values.   *)

\* the live values a load with no failing read restores from memory mem
loadedFrom(mem) ==
  valuesAfter(scanFrom(mem, IF g_flashAvailable THEN 0 ELSE ramScanStart, NoBest, {}),
              mem, TRUE)

C21_RoundTrip ==
  [][ (SaveStep /\ slog'.writeOk)
        => LET mem == IF g_flashAvailable THEN flash' ELSE g_ringBuffer'
               e == mem[g_currentSlot]
           IN  /\ crc8(entryBytes(e)) = e.crc
               /\ e.values = g_values
               /\ loadedFrom(mem) = g_values ]_vars

---------------------------------------------------------------------------
(* Setpoints: the controller's setters and getters over the storage module *)

\* published ranges and defaults; RH and temperature in tenths
CO2_SETPOINT_MIN == 400
CO2_SETPOINT_MAX == 10000
CO2_SETPOINT_DEFAULT == 400
RH_SETPOINT_MIN == 820
RH_SETPOINT_MAX == 960
RH_SETPOINT_DEFAULT == 960
TEMP_SETPOINT_MIN == 180
TEMP_SETPOINT_MAX == 320
TEMP_SETPOINT_DEFAULT == 300

\* positions of the setpoints in the payload (values[1], values[2], values[3])
IDX_CO2 == 2
IDX_RH == 3
IDX_TEMP == 4

\* a float given in hundredths, clamped to a range given in tenths and stored
\* scaled by 10 in a 16-bit value
storeTenths(hundredths, lo, hi) ==
  IF hundredths < lo * 10 THEN lo
  ELSE IF hundredths > hi * 10 THEN hi
  ELSE hundredths \div 10

\* storage_set_co2_setpoint, storage_set_rh_setpoint, storage_set_temp_setpoint:
\* clamp to the range, store, mark for persistence
storage_set_co2_setpoint(values, ppm) ==
  [values EXCEPT ![IDX_CO2] = IF ppm < CO2_SETPOINT_MIN THEN CO2_SETPOINT_MIN
                              ELSE IF ppm > CO2_SETPOINT_MAX THEN CO2_SETPOINT_MAX
                              ELSE ppm]
storage_set_rh_setpoint(values, percent) ==
  [values EXCEPT ![IDX_RH] = storeTenths(percent, RH_SETPOINT_MIN, RH_SETPOINT_MAX)]
storage_set_temp_setpoint(values, celsius) ==
  [values EXCEPT ![IDX_TEMP] = storeTenths(celsius, TEMP_SETPOINT_MIN, TEMP_SETPOINT_MAX)]

\* the getters: the stored value (RH and temperature as tenths)
storage_get_co2_setpoint(values) == values[IDX_CO2]
storage_get_rh_setpoint(values) == values[IDX_RH]
storage_get_temp_setpoint(values) == values[IDX_TEMP]

\* storage_load's treatment of the setpoints it finds: a value outside its range
\* is replaced by the default
sanitized(values) ==
  [values EXCEPT
     ![IDX_CO2] = IF @ < CO2_SETPOINT_MIN \/ @ > CO2_SETPOINT_MAX
                  THEN CO2_SETPOINT_DEFAULT ELSE @,
     ![IDX_RH] = IF @ < RH_SETPOINT_MIN \/ @ > RH_SETPOINT_MAX
                 THEN RH_SETPOINT_DEFAULT ELSE @,
     ![IDX_TEMP] = IF @ < TEMP_SETPOINT_MIN \/ @ > TEMP_SETPOINT_MAX
                   THEN TEMP_SETPOINT_DEFAULT ELSE @]

\* payloads found by the recovery: none (zeros), in range, out of range
StoredCo2 == { 0, 399, 800, 10000, 20000 }
StoredRh == { 0, 820, 900, 2000 }
StoredTemp == { 0, 250, 320, 5000 }
StoredPayloads ==
  { [ZeroValues EXCEPT ![IDX_CO2] = c, ![IDX_RH] = r, ![IDX_TEMP] = t] :
      c \in StoredCo2, r \in StoredRh, t \in StoredTemp }

\* values submitted to the setters: uint16 ppm; floats in hundredths
Co2Inputs == { 0, 399, 400, 1200, 10000, 10001, 65535 }
RhInputs == { -100, 0, 8199, 8200, 9055, 9600, 9601, 20000 }
TempInputs == { -100, 0, 1799, 1800, 2555, 3200, 3201, 20000 }

\* setup() before storage_load: the recovered payload, the controller's statics
SetpointInit ==
  /\ now = BootMs
  /\ CtlParked
  /\ UnitParked
  /\ spc = "off"
  /\ g_storageInitialized = TRUE
  /\ g_flashAvailable = FALSE
  /\ g_ringBuffer = [s \in Slots |-> ErasedSlot]
  /\ flash = [s \in Slots |-> ErasedSlot]
  /\ g_currentSlot = 0
  /\ g_values \in StoredPayloads
  /\ g_valuesDirty = FALSE
  /\ g_lastValueChangeMs = 0
  /\ faults = 0
  /\ slog = NoLog(TRUE)

\* what the setpoint steps leave alone
SetpointFrame ==
  UNCHANGED << now, g_simSensor, lastCheckMs, simMoves, hist, spc, g_storageInitialized,
               g_flashAvailable, g_ringBuffer, flash, g_currentSlot, faults, slog,
               unitVars >>

\* storage_load, as far as the setpoints go
StorageLoadSetpoints ==
  /\ pc = "off"
  /\ pc' = "init"
  /\ g_values' = sanitized(g_values)
  /\ g_valuesDirty' = (g_values' # g_values)
  /\ g_lastValueChangeMs' = IF g_values' # g_values THEN now ELSE g_lastValueChangeMs
  /\ UNCHANGED << g_co2_setpoint, g_rh_setpoint, g_temp_setpoint, g_actionCtx,
                  g_swirlerState, g_freshAirState, g_foggerState, g_heaterState,
                  g_measureCtx, g_nextSampleMs >>
  /\ SetpointFrame

\* controller_init
ControllerInit ==
  /\ pc = "init"
  /\ pc' = "serve"
  /\ SetCtl(allOutputsOff([Ctl EXCEPT !.ctx.currentAction = "ACTION_NONE",
                                      !.ctx.lastVentilationMs = now]))
  /\ g_nextSampleMs' = 0
  /\ g_measureCtx' = [g_measureCtx EXCEPT !.stage = "MEASURE_IDLE"]
  /\ g_co2_setpoint' = storage_get_co2_setpoint(g_values)
  /\ g_rh_setpoint' = storage_get_rh_setpoint(g_values)
  /\ g_temp_setpoint' = storage_get_temp_setpoint(g_values)
  /\ UNCHANGED << g_values, g_valuesDirty, g_lastValueChangeMs >>
  /\ SetpointFrame

\* what a setter leaves alone
SetterFrame ==
  /\ pc' = pc
  /\ g_valuesDirty' = TRUE
  /\ g_lastValueChangeMs' = now
  /\ UNCHANGED << g_actionCtx, g_swirlerState, g_freshAirState, g_foggerState,
                  g_heaterState, g_measureCtx, g_nextSampleMs >>
  /\ SetpointFrame

\* mutant: the setter keeps the value it was given
controller_set_co2_setpoint_raw(ppm) ==
  /\ pc = "serve"
  /\ g_values' = storage_set_co2_setpoint(g_values, ppm)
  /\ g_co2_setpoint' = ppm
  /\ UNCHANGED << g_rh_setpoint, g_temp_setpoint >>
  /\ SetterFrame

\* controller_set_co2_setpoint
controller_set_co2_setpoint(ppm) ==
  /\ pc = "serve"
  /\ g_values' = storage_set_co2_setpoint(g_values, ppm)
  /\ g_co2_setpoint' = storage_get_co2_setpoint(g_values')
  /\ UNCHANGED << g_rh_setpoint, g_temp_setpoint >>
  /\ SetterFrame

\* controller_set_rh_setpoint
controller_set_rh_setpoint(percent) ==
  /\ pc = "serve"
  /\ g_values' = storage_set_rh_setpoint(g_values, percent)
  /\ g_rh_setpoint' = storage_get_rh_setpoint(g_values')
  /\ UNCHANGED << g_co2_setpoint, g_temp_setpoint >>
  /\ SetterFrame

\* controller_set_temp_setpoint
controller_set_temp_setpoint(celsius) ==
  /\ pc = "serve"
  /\ g_values' = storage_set_temp_setpoint(g_values, celsius)
  /\ g_temp_setpoint' = storage_get_temp_setpoint(g_values')
  /\ UNCHANGED << g_co2_setpoint, g_rh_setpoint >>
  /\ SetterFrame

SetCo2 == \E ppm \in Co2Inputs : controller_set_co2_setpoint(ppm)
SetRh == \E percent \in RhInputs : controller_set_rh_setpoint(percent)
SetTemp == \E celsius \in TempInputs : controller_set_temp_setpoint(celsius)

SetpointNext == StorageLoadSetpoints \/ ControllerInit \/ SetCo2 \/ SetRh \/ SetTemp

SetpointSpec == SetpointInit /\ [][SetpointNext]_vars

---------------------------------------------------------------------------
(* C22: after controller_init and after every setter call the three        *)
(* getters return values inside the published ranges (CO2 400..10000 ppm,  *)
(* RH 82..96 %, temperature 18..32 C); an out-of-range input is not        *)
(* rejected: the setpoint becomes the nearest bound of the range, and an   *)
(* input inside the range is taken as given (to one decimal).              *)

\* the published range, applied to a value in the getter's unit
withinRange(v, lo, hi) == IF v < lo THEN lo ELSE IF v > hi THEN hi ELSE v

---------------------------------------------------------------------------
(* The sampler alone, called by a loop whose passes take different times   *)

\* time between two calls of sampleTick
LoopDelays == { 100, 400, 700 }

\* sampleTick, with the push into a sample window (the eleven windows are
\* instances of one class and are pushed together)
SamplerTick ==
  /\ pc = "sample"
  /\ pc' = "idle"
  /\ IF now >= g_nextSampleMs
     THEN \E sim2 \in SimRead(g_simSensor, now, simMoves < MaxSensorMoves) :
            /\ ReadSensors(sim2)
            /\ g_rhBuffer' = push(g_rhBuffer, sim2.rh)
            /\ g_nextSampleMs' = nextSampleDue(g_nextSampleMs, now)
            /\ wlog' = [pushed |-> Append(wlog.pushed, sim2.rh),
                        firstDue |-> IF wlog.due = 0 THEN g_nextSampleMs' ELSE wlog.firstDue,
                        due |-> wlog.due + 1,
                        late |-> wlog.late \/ (wlog.due > 0 /\ now > g_nextSampleMs)]
     ELSE /\ NoRead
          /\ UNCHANGED << g_nextSampleMs, g_rhBuffer, wlog >>
  /\ UNCHANGED << now, g_co2_setpoint, g_rh_setpoint, g_temp_setpoint, g_actionCtx,
                  g_swirlerState, g_freshAirState, g_foggerState, g_heaterState,
                  g_measureCtx, lastCheckMs, hist, storeVars, mcall >>

\* the rest of the loop pass
SamplerAdvance ==
  /\ pc = "idle"
  /\ pc' = "sample"
  /\ \E d \in LoopDelays :
       /\ now + d <= SamplerMaxTime
       /\ now' = now + d
  /\ UNCHANGED << g_simSensor, simMoves, g_co2_setpoint, g_rh_setpoint, g_temp_setpoint,
                  g_actionCtx, g_swirlerState, g_freshAirState, g_foggerState,
                  g_heaterState, g_measureCtx, g_nextSampleMs, lastCheckMs, hist,
                  storeVars, unitVars >>

SamplerNext == SamplerTick \/ SamplerAdvance

SamplerSpec == Init /\ [][SamplerNext]_vars

---------------------------------------------------------------------------
(* C23: sampling is drift-free: the first due tick sets the next due time  *)
(* to now + scaled interval, every later due tick adds exactly the scaled  *)
(* interval to the previous due time whenever the tick runs, so after k    *)
(* further due ticks the due time is first_due + k * scaled interval; a    *)
(* due tick takes exactly one sample and a tick that is not due takes none.*)

C23_DriftFree ==
  /\ [](wlog.due >= 1
          => g_nextSampleMs = wlog.firstDue + (wlog.due - 1) * scaled(SAMPLE_INTERVAL_MS))
  /\ [][ (pc = "sample")
           => IF now >= g_nextSampleMs
              THEN /\ g_nextSampleMs' = IF g_nextSampleMs = 0
                                        THEN now + scaled(SAMPLE_INTERVAL_MS)
                                        ELSE g_nextSampleMs + scaled(SAMPLE_INTERVAL_MS)
                   /\ Len(wlog'.pushed) = Len(wlog.pushed) + 1
                   /\ g_simSensor'.rh = wlog'.pushed[Len(wlog'.pushed)]
              ELSE /\ g_nextSampleMs' = g_nextSampleMs
                   /\ wlog'.pushed = wlog.pushed ]_vars

\* ticks have run late and early, and the schedule is behind the clock by more than
\* one interval
C23_Witness ==
  /\ wlog.late
  /\ wlog.due >= 3
  /\ Len(wlog.pushed) = wlog.due
  /\ now > g_nextSampleMs + scaled(SAMPLE_INTERVAL_MS)
  /\ pc = "idle"

---------------------------------------------------------------------------
(* A sample window under any sequence of pushes                            *)

PushValues == { 10, 20, 30 }

RingInit ==
  /\ now = BootMs
  /\ CtlParked
  /\ StoreParked
  /\ UnitParked

\* one push of any value
RingPush ==
  /\ Len(wlog.pushed) < MaxPushes
  /\ \E v \in PushValues :
       /\ g_rhBuffer' = push(g_rhBuffer, v)
       /\ wlog' = [wlog EXCEPT !.pushed = Append(@, v)]
  /\ UNCHANGED << now, ctlVars, storeVars, mcall >>

RingNext == RingPush

RingSpec == RingInit /\ [][RingNext]_vars

---------------------------------------------------------------------------
(* C24: after any k pushes into a window of capacity N, getAll yields      *)
(* exactly N elements: N - min(k, N) zeros, then the last min(k, N) pushed *)
(* values in push order, oldest first.                                     *)

C24_Linearized ==
  LET k == Len(wlog.pushed)
      m == IF k < RingCap THEN k ELSE RingCap
      out == getAll(g_rhBuffer)
  IN  /\ DOMAIN out = 1 .. RingCap
      /\ \A i \in 1 .. RingCap - m : out[i] = 0
      /\ \A j \in 1 .. m : out[RingCap - m + j] = wlog.pushed[k - m + j]

\* more pushes than the capacity: the oldest two values are gone
C24_Witness ==
  /\ Len(wlog.pushed) = RingCap + 2
  /\ wlog.pushed[1] = 10
  /\ wlog.pushed[3] = 30
  /\ getAll(g_rhBuffer)[1] = 30
  /\ g_rhBuffer.head = 2

---------------------------------------------------------------------------
(* The median helpers called on their own                                  *)

\* arrays handed to the helpers: whole numbers 1 .. 10 in several orders. The float
\* channels carry them in tenths (1.0 = 10), so the average of two of them is exact.
IntArrays ==
  { << 1, 2, 3, 4, 5, 6, 7, 8, 9, 10 >>,
    << 10, 9, 8, 7, 6, 5, 4, 3, 2, 1 >>,
    << 3, 1, 2, 5, 4, 9, 10, 7, 6, 8 >>,
    << 4, 2, 1, 3, 7, 7, 2, 9, 1, 5 >> }
FloatArrays == { [i \in 1 .. 10 |-> 10 * a[i]] : a \in IntArrays }
MedianCounts == 0 .. 10

\* a call with n <= MEDIAN_SAMPLE_COUNT works on a copy that fits 'sorted'; a larger
\* n writes past the end of 'sorted[MEDIAN_SAMPLE_COUNT]', which is undefined: the
\* call may return the value an unbounded copy would give, return something else,
\* or crash, and memory next to the copy (here: the caller's array) may change
medianOutcomes(value, values, n) ==
  IF n <= MEDIAN_SAMPLE_COUNT
  THEN { [outcome |-> "returned", result |-> value, after |-> values] }
  ELSE { [outcome |-> o, result |-> r, after |-> a] :
           o \in { "returned", "crashed" }, r \in { value, 0 },
           a \in { values, [values EXCEPT ![1] = 0] } }

CallMedianFloat ==
  /\ mcall = NoCall
  /\ \E values \in FloatArrays, n \in MedianCounts :
       \E out \in medianOutcomes(medianFloat(values, n), values, n) :
         mcall' = [fn |-> "medianFloat", values |-> values, n |-> n,
                   outcome |-> out.outcome, result |-> out.result, after |-> out.after]
  /\ UNCHANGED << now, ctlVars, storeVars, g_rhBuffer, wlog >>

CallMedianInt ==
  /\ mcall = NoCall
  /\ \E values \in IntArrays, n \in MedianCounts :
       \E out \in medianOutcomes(medianInt(values, n), values, n) :
         mcall' = [fn |-> "medianInt", values |-> values, n |-> n,
                   outcome |-> out.outcome, result |-> out.result, after |-> out.after]
  /\ UNCHANGED << now, ctlVars, storeVars, g_rhBuffer, wlog >>

MedianNext == CallMedianFloat \/ CallMedianInt

MedianSpec == RingInit /\ [][MedianNext]_vars

---------------------------------------------------------------------------
(* C25: on every channel (float and integer) the median of K values is the *)
(* middle element of the sorted values for odd K and the arithmetic        *)
(* average of the two middle elements for even K (1..10 gives 5.5, 1..9    *)
(* gives 5); the result is 0 for K = 0 and the input array is unchanged.   *)

\* the first n values in ascending order
RECURSIVE ascending(_)
ascending(S) ==
  IF S = {} THEN << >>
  ELSE LET i == CHOOSE i \in S : \A j \in S : i[2] < j[2] \/ (i[2] = j[2] /\ i[1] <= j[1])
       IN  << i[2] >> \o ascending(S \ { i })
sortedPrefix(values, n) == ascending({ << i, values[i] >> : i \in 1 .. n })

---------------------------------------------------------------------------
(* The time scaler called on its own                                       *)

\* nominal durations: every value around the factor, the program's timings, and
\* large values
NominalDurations == (0 .. MaxNominalMs) \cup { 3000, 60000, 600000, 2147483647 }

CallScaled ==
  /\ mcall = NoCall
  /\ \E ms \in NominalDurations :
       mcall' = [fn |-> "scaled", values |-> << ms >>, n |-> 1, outcome |-> "returned",
                 result |-> scaled(ms), after |-> << ms >>]
  /\ UNCHANGED << now, ctlVars, storeVars, g_rhBuffer, wlog >>

ScaledNext == CallScaled

ScaledSpec == RingInit /\ [][ScaledNext]_vars

---------------------------------------------------------------------------
(* C26: with the configured factor (>= 1), scaled(0) = 0, scaled(ms) = 1   *)
(* for 0 < ms < factor, and scaled(ms) = floor(ms / factor) otherwise; a   *)
(* non-zero nominal duration never scales to zero.                         *)

C26_Scaled ==
  mcall.fn = "scaled"
    => LET ms == mcall.values[1]
           r == mcall.result
       IN  /\ SPEEDUP_FACTOR >= 1
           /\ ms = 0 => r = 0
           /\ (0 < ms /\ ms < SPEEDUP_FACTOR) => r = 1
           /\ ms >= SPEEDUP_FACTOR
                => ms - r * SPEEDUP_FACTOR \in 0 .. SPEEDUP_FACTOR - 1
           /\ ms # 0 => r # 0

\* a non-zero duration below the factor has been scaled to 1
C26_Witness ==
  /\ mcall.fn = "scaled"
  /\ mcall.values[1] = SPEEDUP_FACTOR - 1
  /\ mcall.result = 1

---------------------------------------------------------------------------
(* C27: one controller_tick runs the sampling scheduler, the measurement   *)
(* cycle, the action sequencer and the heater loop once each in this       *)
(* order. Only the measurement cycle starts an action and only the         *)
(* sequencer moves it on; an action started by EVALUATE is examined by the *)
(* sequencer in the same tick, which leaves it in its first stage; one     *)
(* tick moves an action by at most one stage.                              *)

\* position of the action in its stage sequence, 0 for no action
ActionPos(ctx) ==
  IF ctx.currentAction = "ACTION_NONE" THEN 0
  ELSE StagePos(ctx.currentAction, ctx.currentStage)

\* the action was started in the tick that is running
StartedThisTick ==
  /\ ~NoAction
  /\ ActionPos(g_actionCtx) = 1
  /\ g_actionCtx.stageStartMs = now
  /\ JustEvaluated

C27_TickOrder ==
  [][ /\ now' # now => (pc = "idle" /\ pc' = "sample")
      /\ pc = "sample" => (pc' = "measure" /\ g_actionCtx' = g_actionCtx)
      /\ pc = "measure"
           => /\ pc' = "action"
              /\ \/ SameAction
                 \/ /\ NoAction
                    /\ ActionPos(g_actionCtx') = 1
                    /\ g_actionCtx'.stageStartMs = now
      /\ pc = "action"
           => /\ pc' = "heater"
              /\ g_measureCtx' = g_measureCtx
              /\ StartedThisTick => SameAction
              /\ \/ SameAction
                 \/ /\ g_actionCtx'.currentAction = g_actionCtx.currentAction
                    /\ ActionPos(g_actionCtx') = ActionPos(g_actionCtx) + 1
                 \/ /\ ~NoAction
                    /\ ActionPos(g_actionCtx) = Len(StageSeq(g_actionCtx.currentAction))
                    /\ ActionPos(g_actionCtx') = 0
      /\ pc = "heater"
           => (pc' = "idle" /\ g_actionCtx' = g_actionCtx /\ g_measureCtx' = g_measureCtx)
      /\ pc = "idle" => (pc' = "sample" /\ now' > now) ]_vars

\* the sequencer has examined an action that EVALUATE started in this tick
C27_Witness ==
  /\ pc = "heater"
  /\ ~NoAction
  /\ ActionPos(g_actionCtx) = 1
  /\ g_actionCtx.stageStartMs = now
  /\ g_measureCtx.stage = "MEASURE_WAIT"
  /\ g_measureCtx.stageStartMs = now

---------------------------------------------------------------------------
(* startAction called on its own, in every context the sequencer produces  *)

ActionKinds == ActionTypes \ { "ACTION_NONE" }

\* the context after controller_init, with the heater loop's output either way
FreshCtl(heater) ==
  [ctx |-> [currentAction |-> "ACTION_NONE", currentStage |-> "STAGE_IDLE",
            stageStartMs |-> 0, rhUpLockoutUntilMs |-> 0,
            rhDownLockoutUntilMs |-> 0, lastVentilationMs |-> BootMs],
   out |-> [swirler |-> FALSE, freshAir |-> FALSE, fogger |-> FALSE, heater |-> heater]]

\* the contexts an action passes through when each stage ends as soon as it is due
RECURSIVE stagesFrom(_)
stagesFrom(c) ==
  IF c.ctx.currentAction = "ACTION_NONE" THEN { c }
  ELSE { c } \cup stagesFrom(actionTick(c, c.ctx.stageStartMs
                                           + scaled(StageDurationMs(c.ctx.currentStage))))

CallContexts ==
  UNION { { FreshCtl(h) } \cup stagesFrom(startAction(FreshCtl(h), k, BootMs)) :
            h \in BOOLEAN, k \in ActionKinds }

StartInit ==
  /\ now \in { MaxTime - TickMs, MaxTime }
  /\ pc = "call"
  /\ \E c \in CallContexts :
       /\ g_actionCtx = c.ctx
       /\ g_swirlerState = c.out.swirler
       /\ g_freshAirState = c.out.freshAir
       /\ g_foggerState = c.out.fogger
       /\ g_heaterState = c.out.heater
  /\ g_simSensor = SimSensorInit
  /\ g_co2_setpoint = 800
  /\ g_rh_setpoint = 950
  /\ g_temp_setpoint = 250
  /\ g_measureCtx = [stage |-> "MEASURE_IDLE", stageStartMs |-> 0, nextSampleMs |-> 0,
                     sampleIndex |-> 0, rhSamples |-> ZeroSamples,
                     tempSamples |-> ZeroSamples, co2Samples |-> ZeroSamples]
  /\ g_nextSampleMs = 0
  /\ lastCheckMs = 0
  /\ simMoves = 0
  /\ hist = [rhDownDoneMs |-> -1, rhUpDoneMs |-> -1]
  /\ StoreParked
  /\ UnitParked

\* one call of startAction with any kind
CallStartAction ==
  /\ pc = "call"
  /\ pc' = "called"
  /\ \E kind \in ActionKinds :
       /\ SetCtl(startAction(Ctl, kind, now))
       /\ mcall' = [fn |-> "startAction", values |-> << kind >>, n |-> 1,
                    outcome |-> "returned", result |-> 0, after |-> << >>]
  /\ UNCHANGED << now, g_simSensor, g_co2_setpoint, g_rh_setpoint, g_temp_setpoint,
                  g_measureCtx, g_nextSampleMs, lastCheckMs, simMoves, hist, storeVars,
                  g_rhBuffer, wlog >>

StartNext == CallStartAction

StartSpec == StartInit /\ [][StartNext]_vars

---------------------------------------------------------------------------
(* C28: startAction called while an action is active is a no-op: kind,     *)
(* stage, stage-start time, both lockout deadlines, the last-ventilation   *)
(* time and the four actuator outputs are the same after the call.         *)

C28_StartIsNoOp ==
  [][ (pc = "call" /\ ~NoAction)
        => /\ g_actionCtx' = g_actionCtx
           /\ g_swirlerState' = g_swirlerState
           /\ g_freshAirState' = g_freshAirState
           /\ g_foggerState' = g_foggerState
           /\ g_heaterState' = g_heaterState ]_vars

\* a CO2 action was requested during the MIX stage of an RH-raising action
C28_Witness ==
  /\ pc = "called"
  /\ mcall.values = << "ACTION_CO2" >>
  /\ g_actionCtx.currentStage = "STAGE_RH_UP_MIX"
  /\ g_foggerState
  /\ g_heaterState

---------------------------------------------------------------------------
(* C29: when the terminal stage of an action of any kind elapses, the      *)
(* context becomes "no action" with stage IDLE and the mixing, fresh-air   *)
(* and fogger outputs are off; from then on nothing but an evaluation      *)
(* ends the idle state, and an evaluation in which some rule's condition   *)
(* holds starts a new action.                                              *)

\* the sequencer is about to end the last stage of the running action
TerminalStageDue ==
  /\ StageDue
  /\ ~NoAction
  /\ ActionPos(g_actionCtx) = Len(StageSeq(g_actionCtx.currentAction))

C29_CompletionFreesController ==
  [][ /\ TerminalStageDue
        => /\ g_actionCtx'.currentAction = "ACTION_NONE"
           /\ g_actionCtx'.currentStage = "STAGE_IDLE"
           /\ ~g_swirlerState'
           /\ ~g_freshAirState'
           /\ ~g_foggerState'
      /\ (NoAction /\ g_actionCtx'.currentAction # "ACTION_NONE") => EvalStep
      /\ (EvalStep /\ NoAction /\ FirstMatch # "ACTION_NONE")
        => /\ g_actionCtx'.currentAction # "ACTION_NONE"
           /\ g_actionCtx'.stageStartMs = now ]_vars

\* an RH-raising action has completed and a later evaluation has just started
\* another action
C29_Witness ==
  /\ hist.rhUpDoneMs >= 0
  /\ hist.rhUpDoneMs < now
  /\ StartedThisTick

---------------------------------------------------------------------------
(* C30: during an RH-raising action the fogger is on from the start of the *)
(* action until the end of the MIX stage; mixing and fresh-air are off     *)
(* through the FOGGER stage and are switched on at the FOGGER -> MIX       *)
(* transition; fogger, mixing and fresh-air are all switched off at the    *)
(* MIX -> SETTLE transition.                                               *)

RhUpIn(stage) ==
  /\ g_actionCtx.currentAction = "ACTION_RH_UP"
  /\ g_actionCtx.currentStage = stage

RhUpInNext(stage) ==
  /\ g_actionCtx'.currentAction = "ACTION_RH_UP"
  /\ g_actionCtx'.currentStage = stage

C30_RhUpOutputs ==
  [][ /\ Starts("ACTION_RH_UP")
        => /\ RhUpInNext("STAGE_RH_UP_FOGGER")
           /\ g_foggerState' /\ ~g_swirlerState' /\ ~g_freshAirState'
      /\ (RhUpIn("STAGE_RH_UP_FOGGER") /\ RhUpInNext("STAGE_RH_UP_FOGGER"))
        => g_foggerState' /\ ~g_swirlerState' /\ ~g_freshAirState'
      /\ RhUpIn("STAGE_RH_UP_FOGGER") /\ ~RhUpInNext("STAGE_RH_UP_FOGGER")
        => /\ RhUpInNext("STAGE_RH_UP_MIX")
           /\ pc = "action"
           /\ g_foggerState' /\ g_swirlerState' /\ g_freshAirState'
      /\ (RhUpIn("STAGE_RH_UP_MIX") /\ RhUpInNext("STAGE_RH_UP_MIX"))
        => g_foggerState' /\ g_swirlerState' /\ g_freshAirState'
      /\ RhUpIn("STAGE_RH_UP_MIX") /\ ~RhUpInNext("STAGE_RH_UP_MIX")
        => /\ RhUpInNext("STAGE_RH_UP_SETTLE")
           /\ pc = "action"
           /\ g_foggerState /\ g_swirlerState /\ g_freshAirState
           /\ ~g_foggerState' /\ ~g_swirlerState' /\ ~g_freshAirState' ]_vars

\* the MIX stage has just ended: the action is in SETTLE with the three outputs off
C30_Witness ==
  /\ RhUpIn("STAGE_RH_UP_SETTLE")
  /\ g_actionCtx.stageStartMs = now
  /\ pc = "heater"
  /\ ~g_foggerState /\ ~g_swirlerState /\ ~g_freshAirState

---------------------------------------------------------------------------
(* C31: throughout every settle stage of every action kind the mixing,     *)
(* fresh-air and fogger outputs are all off, whatever the measurement      *)
(* cycle does in the same ticks.                                           *)

SettleStages ==
  { "STAGE_CO2_SETTLE", "STAGE_RH_DOWN_SETTLE", "STAGE_RH_UP_SETTLE", "STAGE_BASELINE_SETTLE" }

InSettle == ~NoAction /\ g_actionCtx.currentStage \in SettleStages

C31_SettleAllOff ==
  InSettle => (~g_swirlerState /\ ~g_freshAirState /\ ~g_foggerState)

---------------------------------------------------------------------------
(* heaterTick called on its own: every heater output, every reading as the *)
(* sensor's last value and as the value read, a check that is due and one  *)
(* that is not.                                                            *)

HeaterInit ==
  /\ now = MaxTime
  /\ pc = "heater"
  /\ \E r \in Readings :
       g_simSensor = [co2 |-> r.co2, rh |-> r.rh, temp |-> r.temp, lastUpdate |-> 0]
  /\ g_co2_setpoint \in Co2Setpoints
  /\ g_rh_setpoint \in RhSetpoints
  /\ g_temp_setpoint \in TempSetpoints
  /\ g_actionCtx = [currentAction |-> "ACTION_NONE", currentStage |-> "STAGE_IDLE",
                    stageStartMs |-> 0, rhUpLockoutUntilMs |-> 0,
                    rhDownLockoutUntilMs |-> 0, lastVentilationMs |-> BootMs]
  /\ g_swirlerState = FALSE
  /\ g_freshAirState = FALSE
  /\ g_foggerState = FALSE
  /\ g_heaterState \in BOOLEAN
  /\ g_measureCtx = [stage |-> "MEASURE_IDLE", stageStartMs |-> 0, nextSampleMs |-> 0,
                     sampleIndex |-> 0, rhSamples |-> ZeroSamples,
                     tempSamples |-> ZeroSamples, co2Samples |-> ZeroSamples]
  /\ g_nextSampleMs = 0
  /\ lastCheckMs \in { 0, now - scaled(HEATER_CHECK_INTERVAL_MS),
                       now - scaled(HEATER_CHECK_INTERVAL_MS) + 1 }
  /\ simMoves = 0
  /\ hist = [rhDownDoneMs |-> -1, rhUpDoneMs |-> -1]
  /\ StoreParked
  /\ UnitParked

HeaterNext == HeaterTick

HeaterSpec == HeaterInit /\ [][HeaterNext]_vars

---------------------------------------------------------------------------
(* C32: a heater check leaves the heater output unchanged whenever         *)
(* setpoint - on_threshold <= temperature < setpoint, whenever the heater  *)
(* is on and temperature < setpoint, and whenever the heater is off and    *)
(* temperature >= setpoint - on_threshold; heater checks are at least one  *)
(* scaled check interval apart.                                            *)

\* the step is a heater check that reads the temperature
HeaterCheck == pc = "heater" /\ pc' = "idle" /\ lastCheckMs' = now

\* the temperature the check has read
CheckTemp == g_simSensor'.temp

C32_HeaterDeadBand ==
  [][ /\ HeaterCheck
        => /\ (g_temp_setpoint - HEATER_ON_THRESHOLD <= CheckTemp /\ CheckTemp < g_temp_setpoint)
                => g_heaterState' = g_heaterState
           /\ (g_heaterState /\ CheckTemp < g_temp_setpoint) => g_heaterState'
           /\ (~g_heaterState /\ CheckTemp >= g_temp_setpoint - HEATER_ON_THRESHOLD)
                => ~g_heaterState'
      /\ lastCheckMs' # lastCheckMs
        => /\ pc = "heater"
           /\ lastCheckMs' = now
           /\ now - lastCheckMs >= scaled(HEATER_CHECK_INTERVAL_MS) ]_vars

\* a check of a heater that was on has just read a temperature inside the dead
\* band and has left it on
C32_Witness ==
  /\ pc = "idle"
  /\ lastCheckMs = now
  /\ g_heaterState
  /\ g_temp_setpoint - HEATER_ON_THRESHOLD <= g_simSensor.temp
  /\ g_simSensor.temp < g_temp_setpoint
  /\ g_simSensor.lastUpdate = now

---------------------------------------------------------------------------
(* C33: each measurement cycle's MEDIAN_SAMPLE stage collects exactly      *)
(* K = 10 samples, at most one per tick and one per due sub-interval, at   *)
(* indices 0..K-1 of the three per-channel arrays (the sample index never  *)
(* exceeds K), and only then moves to EVALUATE, which computes the medians *)
(* over those K samples.                                                   *)

\* MEDIAN_SAMPLE_COUNT as config.h declares it ("Sensor Averaging")
CONFIG_MEDIAN_SAMPLE_COUNT == 10

\* the step stores one sample at the index the stage has reached
StoresSample ==
  LET i == g_measureCtx.sampleIndex + 1
  IN  /\ pc = "measure"
      /\ g_measureCtx.stage = "MEASURE_MEDIAN"
      /\ now >= g_measureCtx.nextSampleMs
      /\ g_measureCtx'.sampleIndex = i
      /\ g_measureCtx'.nextSampleMs
           = g_measureCtx.nextSampleMs + scaled(RT_MEDIAN_SAMPLE_PERIOD_MS)
      /\ g_measureCtx'.rhSamples = [g_measureCtx.rhSamples EXCEPT ![i] = g_simSensor'.rh]
      /\ g_measureCtx'.tempSamples = [g_measureCtx.tempSamples EXCEPT ![i] = g_simSensor'.temp]
      /\ g_measureCtx'.co2Samples = [g_measureCtx.co2Samples EXCEPT ![i] = g_simSensor'.co2]

SamplesUnchanged ==
  /\ g_measureCtx'.sampleIndex = g_measureCtx.sampleIndex
  /\ g_measureCtx'.rhSamples = g_measureCtx.rhSamples
  /\ g_measureCtx'.tempSamples = g_measureCtx.tempSamples
  /\ g_measureCtx'.co2Samples = g_measureCtx.co2Samples

\* the stage restarts its count on entry from SWIRL
RestartsCount ==
  /\ g_measureCtx.stage = "MEASURE_SWIRL"
  /\ g_measureCtx'.stage = "MEASURE_MEDIAN"
  /\ g_measureCtx'.sampleIndex = 0
  /\ g_measureCtx'.rhSamples = g_measureCtx.rhSamples
  /\ g_measureCtx'.tempSamples = g_measureCtx.tempSamples
  /\ g_measureCtx'.co2Samples = g_measureCtx.co2Samples

MedianCollects(K) ==
  /\ g_measureCtx'.sampleIndex <= K
  /\ StoresSample \/ SamplesUnchanged \/ RestartsCount
  /\ (g_measureCtx.stage = "MEASURE_MEDIAN" /\ g_measureCtx'.stage # "MEASURE_MEDIAN")
       => /\ g_measureCtx'.stage = "MEASURE_EVALUATE"
          /\ g_measureCtx'.sampleIndex = K
  /\ EvalStep => /\ g_measureCtx.sampleIndex = K
                 /\ SamplesUnchanged

C33_TenSamples == [][MedianCollects(CONFIG_MEDIAN_SAMPLE_COUNT)]_vars

---------------------------------------------------------------------------
(* C34: on the block device, whatever device calls fail during the saves,  *)
(* a load run after a save yields the payload of the most recent save      *)
(* whose write succeeded: a successful save makes its own payload the one  *)
(* a load restores, and a save whose write failed leaves the payload a     *)
(* load restores as the last successful save made it.                      *)

C34_LoadsLatestSave ==
  [][ (SaveStep /\ g_flashAvailable)
        => IF slog'.writeOk
           THEN loadedFrom(flash') = g_values
           ELSE slog.written # << >> => loadedFrom(flash') = loadedFrom(flash) ]_vars

---------------------------------------------------------------------------
(* C35: on the block device, from the first successful save onward the     *)
(* region holds at least one valid slot at every instant, also between the *)
(* region erase and the slot write of a wrapping save, so that init and    *)
(* load after a power loss at any point find a saved record and not the    *)
(* zero cold-start values.                                                 *)

\* a load on region mem finds a record
Recoverable(mem) == scanFrom(mem, 0, NoBest, {}).found

C35_AlwaysRecoverable ==
  [][ (SaveStep /\ g_flashAvailable /\ slog.written # << >>)
        => \A f \in SaveOutcomes(flash, g_currentSlot) :
             LET r == saveFlash(flash, g_currentSlot, g_values, f)
             IN  (r.flash = flash' /\ faults' = faults + faultsOf(f))
                   => /\ Recoverable(flash)
                      /\ Recoverable(r.afterErase)
                      /\ Recoverable(flash') ]_vars

---------------------------------------------------------------------------
(* The storage program on an erased region, its loop running for ever:     *)
(* weak fairness of the loop's steps (loop() is called again as soon as it *)
(* returns).                                                               *)

StoreLiveInit == StoreInitWith({ LogImage(0) })

StoreLiveSpec == StoreLiveInit /\ [][StoreNext]_vars /\ WF_vars(StoreNext)

---------------------------------------------------------------------------
(* C36: once the live values are dirty and no further value change occurs, *)
(* a save is eventually attempted and the dirty flag is eventually         *)
(* cleared; and while value changes keep arriving less than one debounce   *)
(* interval apart, no save is attempted.                                   *)

\* the run goes on long enough for a change made at t to become due
DueInTime(t) == t + PERSIST_INTERVAL_MS + StoreTickMs <= StoreMaxTime

\* values are waiting for a save that the run is long enough to make unless
\* they change again
SaveOwed == g_valuesDirty /\ DueInTime(g_lastValueChangeMs)

C36_DirtyEventuallySaved ==
  /\ []<>(~SaveOwed)
  /\ [][ /\ (g_valuesDirty /\ ~g_valuesDirty') => SaveStep
         /\ SaveStep => now - g_lastValueChangeMs >= PERSIST_INTERVAL_MS ]_vars

\* values changed once, were left alone and have been saved one debounce
\* interval later
C36_Witness ==
  /\ slog.n = 1
  /\ ~g_valuesDirty
  /\ g_values[1] = 1
  /\ slog.ms >= g_lastValueChangeMs + PERSIST_INTERVAL_MS
  /\ g_lastValueChangeMs >= StoreBootMs

---------------------------------------------------------------------------
(* C37: in every reachable state with no action active the fogger and the  *)
(* fresh-air output are off; the fogger is on only in the RH-raising       *)
(* FOGGER and MIX stages, and fresh-air is on only in the RH-lowering      *)
(* FRESHAIR, RH-raising MIX and baseline FRESHAIR stages.                  *)

FoggerStages == { "STAGE_RH_UP_FOGGER", "STAGE_RH_UP_MIX" }
FreshAirStages == { "STAGE_RH_DOWN_FRESHAIR", "STAGE_RH_UP_MIX", "STAGE_BASELINE_FRESHAIR" }

C37_FoggerFreshAirByStage ==
  /\ NoAction => (~g_foggerState /\ ~g_freshAirState)
  /\ g_foggerState => (~NoAction /\ g_actionCtx.currentStage \in FoggerStages)
  /\ g_freshAirState => (~NoAction /\ g_actionCtx.currentStage \in FreshAirStages)

\* a baseline ventilation is running with fresh-air on, nothing else
C37_Witness ==
  /\ g_actionCtx.currentAction = "ACTION_BASELINE"
  /\ g_actionCtx.currentStage = "STAGE_BASELINE_FRESHAIR"
  /\ g_freshAirState
  /\ ~g_foggerState
  /\ pc = "idle"

---------------------------------------------------------------------------
(* The controller under a loop that passes every FastTickMs, with a sensor *)
(* reading that stays as it is at boot                                     *)

\* the reading does not move
Still == simMoves' = simMoves

\* the rest of loop(): the pass takes FastTickMs
FastAdvance ==
  /\ pc = "idle"
  /\ pc' = "sample"
  /\ now + FastTickMs <= FastMaxTime
  /\ now' = now + FastTickMs
  /\ UNCHANGED << g_simSensor, simMoves, g_co2_setpoint, g_rh_setpoint, g_temp_setpoint,
                  g_actionCtx, g_swirlerState, g_freshAirState, g_foggerState,
                  g_heaterState, g_measureCtx, g_nextSampleMs, lastCheckMs, hist,
                  storeVars, unitVars >>

FastNext ==
  \/ SampleTick /\ Still
  \/ MeasurementTick /\ Still
  \/ ActionTick
  \/ HeaterTick /\ Still
  \/ FastAdvance

FastSpec == Init /\ [][FastNext]_vars

---------------------------------------------------------------------------
(* C38: whenever the measurement machine is in its SWIRL stage the mixing  *)
(* output is on, whatever steps the action sequencer takes in the same     *)
(* ticks.                                                                  *)

C38_SwirlKeepsMixingOn ==
  g_measureCtx.stage = "MEASURE_SWIRL" => g_swirlerState

---------------------------------------------------------------------------
(* C39: every step that switches the fresh-air output on sets the          *)
(* last-ventilation time to the current time in the same step, no other    *)
(* step changes the last-ventilation time, and so, while fresh-air is on,  *)
(* the last-ventilation time is the time at which it was switched on (the  *)
(* start of the stage that switched it on).                                *)

FreshAirSwitchedOn == ~g_freshAirState /\ g_freshAirState'

C39_VentilationStamped ==
  [][ /\ FreshAirSwitchedOn => g_actionCtx'.lastVentilationMs = now
      /\ g_actionCtx'.lastVentilationMs # g_actionCtx.lastVentilationMs
           => FreshAirSwitchedOn
      /\ g_freshAirState'
           => g_actionCtx'.lastVentilationMs = g_actionCtx'.stageStartMs ]_vars

\* the RH-raising action has just switched fresh-air on, after boot
C39_Witness ==
  /\ g_freshAirState
  /\ g_actionCtx.currentStage = "STAGE_RH_UP_MIX"
  /\ g_actionCtx.lastVentilationMs = now
  /\ now > BootMs

---------------------------------------------------------------------------
(* C40: in every reachable state the action kind is "none" if and only if  *)
(* the stage is IDLE, and the stage of an active action is one of the      *)
(* stages of that action's own kind.                                       *)

OwnStages(kind) == { StageSeq(kind)[i] : i \in 1..Len(StageSeq(kind)) }

C40_KindMatchesStage ==
  /\ NoAction <=> g_actionCtx.currentStage = "STAGE_IDLE"
  /\ ~NoAction => g_actionCtx.currentStage \in OwnStages(g_actionCtx.currentAction)

\* an action has run into its last stage
C40_Witness ==
  /\ g_actionCtx.currentAction = "ACTION_RH_DOWN"
  /\ g_actionCtx.currentStage = "STAGE_RH_DOWN_SETTLE"

====
